---- MODULE Spec2Model ----
(***************************************************************************)
(* The replicated in-memory file system of the kernel: the page-chunked    *)
(* file body (kernel/src/fs/file.rs), the mnode registry MlnrFS            *)
(* (kernel/src/mlnrfs/mod.rs) and the replication reducer MlnrKernelNode   *)
(* (kernel/src/mlnr.rs), together with the ModelFIO reference model of     *)
(* usr/init/src/fs.rs.                                                     *)
(***************************************************************************)
EXTENDS Integers, Sequences, FiniteSets, TLC

(***************************************************************************)
(* Bounds.  The page size and the table sizes of the program are scaled    *)
(* down so that buffer boundaries and full tables are reached.             *)
(***************************************************************************)
BASE_PAGE_SIZE == 2
MAX_FILES_PER_PROCESS == 2
MaxCores == 2
MaxMnode == 3
MaxOps == 4
MaxCount == 2
MaxOff == 2

Pids == {1, 2}
Tids == 0 .. (MaxCores - 1)
Paths == {"/", "/a", "/b"}
MnodeIds == 1 .. MaxMnode
FdIds == 0 .. (MAX_FILES_PER_PROCESS - 1)
Offsets == {-1} \cup (0 .. MaxOff)
Payloads == {<<1>>, <<2, 1, 2>>}
S_IRWXU == 448
ModeSet == {S_IRWXU}

(***************************************************************************)
(* FileFlags: a flag word is the set of the bits it has set.               *)
(***************************************************************************)
O_RDONLY == {"READ"}
O_WRONLY == {"WRITE"}
O_RDWR == {"READ", "WRITE"}
O_CREAT == {"CREATE"}
O_APPEND == {"APPEND"}
O_TRUNC == {"TRUNCATE"}
FlagSets == {O_RDWR, O_RDWR \cup O_CREAT, O_WRONLY \cup O_CREAT,
             O_RDONLY \cup O_CREAT, O_RDWR \cup O_CREAT \cup O_APPEND,
             O_RDWR \cup O_TRUNC}

is_read(flags) == "READ" \in flags
is_write(flags) == "WRITE" \in flags
is_create(flags) == "CREATE" \in flags
is_append(flags) == "APPEND" \in flags
is_truncate(flags) == "TRUNCATE" \in flags

(***************************************************************************)
(* Where an allocation fails during one operation: nowhere, in File::new,  *)
(* in the buffers of increase_file_size, or in the buffers of write_file.  *)
(***************************************************************************)
OomPoints == {"none", "new", "resize", "write"}

\* node, last, nops: one replica, the last operation it applied with its
\* response, and the number of operations applied.  node2, resp2: a second
\* replica fed the same log.  mfs: the ModelFIO reference model.
VARIABLES node, last, nops, node2, resp2, mfs, hist, file, fdtable,
          fr, heap, vspace, gm, ptab, conc, tcp

vars == <<node, last, nops, node2, resp2, mfs, hist, file, fdtable,
          fr, heap, vspace, gm, ptab, conc, tcp>>

(***************************************************************************)
(* Responses of the reducer.                                               *)
(***************************************************************************)
Ok(kind, val) == [tag |-> "Ok", kind |-> kind, val |-> val]
Err(kind) == [tag |-> "Err", kind |-> kind, val |-> 0]
Panic(msg) == [tag |-> "Panic", kind |-> msg, val |-> 0]

Min(a, b) == IF a < b THEN a ELSE b
Max(a, b) == IF a > b THEN a ELSE b

Zeros(n) == [i \in 1 .. n |-> 0]
Take(s, n) == SubSeq(s, 1, Min(n, Len(s)))

(***************************************************************************)
(* kernel/src/fs/file.rs                                                   *)
(***************************************************************************)
ceil(bytes, buffer_size) ==
    LET val == bytes \div buffer_size
    IN  IF bytes > val * buffer_size THEN val + 1 ELSE val

offset_to_buffernum(offset, buffer_size) == offset \div buffer_size

\* Buffer::try_alloc_buffer: fails when the allocator has no memory left.
try_alloc_buffer(fails) == IF fails THEN "OutOfMemory" ELSE "Ok"

RECURSIVE SumUntilEmpty(_, _)
SumUntilEmpty(mcache, i) ==
    IF i > Len(mcache) \/ Len(mcache[i]) = 0 THEN 0
    ELSE Len(mcache[i]) + SumUntilEmpty(mcache, i + 1)

get_size(mcache) ==
    IF Len(mcache) = 0 THEN 0
    ELSE IF Len(mcache) = 1 THEN Len(mcache[1])
    ELSE SumUntilEmpty(mcache, 1)

\* Replace the last buffer of a non-empty list.
SetLast(mcache, buf) == [mcache EXCEPT ![Len(mcache)] = buf]

\* Vec::resize(n, 0) on one buffer.
VecResize(buf, n) ==
    IF n <= Len(buf) THEN SubSeq(buf, 1, n) ELSE buf \o Zeros(n - Len(buf))

\* Returns [ok, mcache].
increase_file_size(mcache, curr_file_len, new_len, oom) ==
    LET free_in_last_buffer ==
            IF Len(mcache) > 0
            THEN BASE_PAGE_SIZE - Len(mcache[Len(mcache)]) ELSE 0
        add_new == new_len - curr_file_len
    IN  IF add_new <= free_in_last_buffer
        THEN LET lastb == mcache[Len(mcache)]
             IN  [ok |-> TRUE,
                  mcache |-> SetLast(mcache, VecResize(lastb, Len(lastb) + add_new))]
        ELSE LET padded == IF Len(mcache) > 0
                           THEN SetLast(mcache,
                                        VecResize(mcache[Len(mcache)], BASE_PAGE_SIZE))
                           ELSE mcache
                 remaining == add_new - free_in_last_buffer
                 new_buffers == ceil(remaining, BASE_PAGE_SIZE)
                 full == [i \in 1 .. new_buffers |-> Zeros(BASE_PAGE_SIZE)]
                 sure_bytes_to_write == (new_buffers - 1) * BASE_PAGE_SIZE
                 bytes_in_last_buffer ==
                     new_len - (get_size(padded) + sure_bytes_to_write)
                 vec == IF new_len % BASE_PAGE_SIZE # 0
                        THEN SetLast(full, VecResize(full[new_buffers],
                                                     bytes_in_last_buffer))
                        ELSE full
             IN  IF new_buffers > 0 /\ try_alloc_buffer(oom = "resize") # "Ok"
                 THEN [ok |-> FALSE, mcache |-> padded]
                 ELSE [ok |-> TRUE, mcache |-> padded \o vec]

decrease_file_size_untrimmed(mcache, new_len) ==
    [ok |-> TRUE, mcache |-> Take(mcache, ceil(new_len, BASE_PAGE_SIZE))]

\* Returns [ok, mcache].
decrease_file_size(mcache, new_len) ==
    LET new_last_buffer == ceil(new_len, BASE_PAGE_SIZE)
        popped == Take(mcache, new_last_buffer)
    IN  IF Len(popped) > 0
        THEN LET extra == (new_last_buffer * BASE_PAGE_SIZE) - new_len
                 keep == IF extra # 0 THEN BASE_PAGE_SIZE - extra ELSE BASE_PAGE_SIZE
             IN  [ok |-> TRUE,
                  mcache |-> SetLast(popped, VecResize(popped[Len(popped)], keep))]
        ELSE [ok |-> TRUE, mcache |-> popped]

resize_from_growing(mcache, curr_file_len, new_len, oom) ==
    IF curr_file_len >= new_len THEN [ok |-> TRUE, mcache |-> mcache]
    ELSE increase_file_size(mcache, curr_file_len, new_len, oom)

\* resize_file once the current size is known.
resize_from(mcache, curr_file_len, new_len, oom) ==
    IF curr_file_len = new_len THEN [ok |-> TRUE, mcache |-> mcache]
    ELSE IF new_len > curr_file_len
    THEN increase_file_size(mcache, curr_file_len, new_len, oom)
    ELSE decrease_file_size(mcache, new_len)

resize_file_relative(mcache, new_len, oom) ==
    resize_from(mcache, get_size(mcache), get_size(mcache) + new_len, oom)

\* Returns [ok, mcache].
resize_file(mcache, new_len, oom) ==
    resize_from(mcache, get_size(mcache), new_len, oom)

\* The copy loop of read_file; returns the bytes copied to the user slice.
RECURSIVE ReadLoop(_, _, _, _)
ReadLoop(mcache, buffer_num, offset_in_buffer, remaining) ==
    IF remaining <= 0 THEN <<>>
    ELSE LET data == mcache[buffer_num + 1]
             useful_data_curr_buffer == Len(data) - offset_in_buffer
             n == IF remaining >= useful_data_curr_buffer
                  THEN useful_data_curr_buffer ELSE remaining
         IN  SubSeq(data, offset_in_buffer + 1, offset_in_buffer + n)
             \o ReadLoop(mcache, buffer_num + 1, 0, remaining - n)

\* read_file(user_slice, start_offset, end_offset), 0 <= start <= end <= size.
read_file(mcache, start_offset, end_offset) ==
    LET buffer_num == offset_to_buffernum(start_offset, BASE_PAGE_SIZE)
        offset_in_buffer == start_offset - (buffer_num * BASE_PAGE_SIZE)
    IN  ReadLoop(mcache, buffer_num, offset_in_buffer, end_offset - start_offset)

\* The copy loop of write_file.
RECURSIVE WriteLoop(_, _, _, _)
WriteLoop(mcache, buffer_num, user_slice, start) ==
    IF start >= Len(user_slice) THEN mcache
    ELSE LET filled == Len(mcache[buffer_num + 1])
             free_in_buffer == BASE_PAGE_SIZE - filled
             remaining == Len(user_slice) - start
             end == IF free_in_buffer >= remaining
                    THEN start + remaining ELSE start + free_in_buffer
         IN  WriteLoop([mcache EXCEPT ![buffer_num + 1] =
                            @ \o SubSeq(user_slice, start + 1, end)],
                       buffer_num + 1, user_slice, end)

write_copy_short(m2, user_slice, len) ==
    [res |-> "Ok", val |-> len,
     mcache |-> WriteLoop(m2, offset_to_buffernum(get_size(m2), BASE_PAGE_SIZE),
                          Take(user_slice, Max(len - 1, 0)), 0)]

\* write_file, the copy into the (extended) buffer list.
write_copy(m2, user_slice, len) ==
    [res |-> "Ok", val |-> len,
     mcache |-> WriteLoop(m2, offset_to_buffernum(get_size(m2), BASE_PAGE_SIZE),
                          Take(user_slice, len), 0)]

\* write_file, adding add_empty_buffer new buffers when the data needs them.
write_extend(m1, add_empty_buffer, user_slice, len, oom) ==
    IF add_empty_buffer > 0 /\ try_alloc_buffer(oom = "write") # "Ok"
    THEN [res |-> "OutOfMemory", val |-> 0, mcache |-> m1]
    ELSE write_copy(m1 \o [i \in 1 .. add_empty_buffer |-> <<>>], user_slice, len)

add_empty_buffers_spare(m1, len) ==
    IF len > 0 THEN ceil(len, BASE_PAGE_SIZE) + 1 ELSE 0

\* The number of buffers write_file adds for len bytes.
add_empty_buffers(m1, len) ==
    LET free_in_last_buffer ==
            IF Len(m1) > 0 THEN BASE_PAGE_SIZE - Len(m1[Len(m1)]) ELSE 0
    IN  IF len > free_in_last_buffer
        THEN ceil(len - free_in_last_buffer, BASE_PAGE_SIZE) ELSE 0

\* write_file after its resize step returned rs.
write_resized(rs, user_slice, len, oom) ==
    IF ~rs.ok THEN [res |-> "OutOfMemory", val |-> 0, mcache |-> rs.mcache]
    ELSE write_extend(rs.mcache, add_empty_buffers(rs.mcache, len),
                      user_slice, len, oom)

\* write_file(user_slice, len, start_offset); returns [res, val, mcache].
write_file(mcache, user_slice, len, start_offset, oom) ==
    write_resized(IF start_offset # -1
                  THEN resize_file(mcache, start_offset, oom)
                  ELSE [ok |-> TRUE, mcache |-> mcache],
                  user_slice, len, oom)

\* File::new: reserving the buffer list can run out of memory.
File_new(modes, oom) ==
    IF oom = "new" THEN [res |-> "OutOfMemory", mcache |-> <<>>]
    ELSE [res |-> "Ok", mcache |-> <<>>]

\* The bytes of a file as one flat array.
RECURSIVE Flatten(_)
Flatten(mcache) ==
    IF Len(mcache) = 0 THEN <<>> ELSE Head(mcache) \o Flatten(Tail(mcache))


(***************************************************************************)
(* MemNode (kernel/src/fs/mod.rs): one file or directory.  A directory     *)
(* carries no file body.                                                   *)
(***************************************************************************)
NoMemNode ==
    [present |-> FALSE, name |-> "", modes |-> 0, node_type |-> "File",
     mcache |-> <<>>]

\* MemNode::new: a File node gets a body from File::new, a Directory none.
MemNode_new(mnode_num, pathname, modes, node_type, oom) ==
    LET f == IF node_type = "File" THEN File_new(modes, oom)
             ELSE [res |-> "Ok", mcache |-> <<>>]
    IN  IF f.res # "Ok" THEN [res |-> f.res, memnode |-> NoMemNode]
        ELSE [res |-> "Ok",
              memnode |-> [present |-> TRUE, name |-> pathname, modes |-> modes,
                           node_type |-> node_type, mcache |-> f.mcache]]

\* The node after its body was written with result w.
MemNode_written(memnode, w) ==
    [res |-> w.res, val |-> w.val,
     memnode |-> [memnode EXCEPT !.mcache = w.mcache]]

\* MemNode::write: forward to the body at the given offset.
MemNode_write(memnode, buffer, offset, oom) ==
    IF memnode.node_type # "File"
    THEN [res |-> "PermissionError", val |-> 0, memnode |-> memnode]
    ELSE MemNode_written(memnode,
                         write_file(memnode.mcache, buffer, Len(buffer), offset, oom))

get_file_size(memnode) == get_size(memnode.mcache)

(***************************************************************************)
(* kernel/src/mlnrfs/mod.rs                                                *)
(***************************************************************************)
NoMnode == 0

MlnrFS_default ==
    [mnodes |-> [m \in MnodeIds |->
                    IF m = 1
                    THEN MemNode_new(1, "/", S_IRWXU, "Directory", "none").memnode
                    ELSE NoMemNode],
     files |-> [p \in Paths |-> IF p = "/" THEN 1 ELSE NoMnode],
     nextmemnode |-> 2]

\* fetch_add(1) on nextmemnode: [val, fs].
get_next_mno_stuck(fs) == [val |-> fs.nextmemnode, fs |-> fs]

get_next_mno(fs) ==
    [val |-> fs.nextmemnode, fs |-> [fs EXCEPT !.nextmemnode = @ + 1]]

lookup(fs, pathname) == fs.files[pathname]

create_insert_unregistered(n, pathname, mn) ==
    IF mn.res # "Ok"
    THEN [res |-> mn.res, val |-> 0, fs |-> n.fs]
    ELSE [res |-> "Ok", val |-> n.val,
          fs |-> [n.fs EXCEPT !.files[pathname] = n.val]]

\* create after MemNode::new returned mn for the mnode number n.val.
create_insert(n, pathname, mn) ==
    IF mn.res # "Ok"
    THEN [res |-> mn.res, val |-> 0, fs |-> n.fs]
    ELSE [res |-> "Ok", val |-> n.val,
          fs |-> [n.fs EXCEPT !.files[pathname] = n.val,
                              !.mnodes[n.val] = mn.memnode]]

\* create with the fresh mnode number n = get_next_mno().
create_numbered(n, pathname, modes, oom) ==
    create_insert(n, pathname, MemNode_new(n.val, pathname, modes, "File", oom))

\* Returns [res, val, fs].
create(fs, pathname, modes, oom) ==
    IF fs.files[pathname] # NoMnode
    THEN [res |-> "AlreadyPresent", val |-> 0, fs |-> fs]
    ELSE create_numbered(get_next_mno(fs), pathname, modes, oom)

\* The file system after the node's write returned w.
MlnrFS_written(fs, mnode_num, w) ==
    [res |-> w.res, val |-> w.val,
     fs |-> [fs EXCEPT !.mnodes[mnode_num] = w.memnode]]

\* Returns [res, val, fs].
MlnrFS_write(fs, mnode_num, buffer, offset, oom) ==
    IF mnode_num \in MnodeIds /\ fs.mnodes[mnode_num].present
    THEN MlnrFS_written(fs, mnode_num,
                        MemNode_write(fs.mnodes[mnode_num], buffer, offset, oom))
    ELSE [res |-> "InvalidFile", val |-> 0, fs |-> fs]

strong_count_held(fs, pathname) ==
    1 + Cardinality({p \in Paths : fs.files[p] = fs.files[pathname]})

\* Arc::strong_count of the Arc<Mnode> a path is bound to: the reference the
\* path map holds plus the clones alive.  The only clone is the one lookup
\* hands to FileOpen, dropped when that arm returns (the fd table stores the
\* mnode number, not the Arc), so none is alive when delete runs.
strong_count(fs, pathname) == 1

delete_recycling(fs, pathname, mnode, count) ==
    [res |-> "Ok", val |-> TRUE,
     fs |-> [fs EXCEPT !.files[pathname] = NoMnode,
                       !.mnodes[mnode] = NoMemNode,
                       !.nextmemnode = mnode]]

\* delete of a bound path, given the reference count of its mnode.
delete_counted(fs, pathname, mnode, count) ==
    IF count = 1
    THEN [res |-> "Ok", val |-> TRUE,
          fs |-> [fs EXCEPT !.files[pathname] = NoMnode,
                            !.mnodes[mnode] = NoMemNode]]
    ELSE [res |-> "PermissionError", val |-> FALSE, fs |-> fs]

\* Returns [res, val, fs].
delete(fs, pathname) ==
    IF fs.files[pathname] = NoMnode
    THEN [res |-> "InvalidFile", val |-> FALSE, fs |-> fs]
    ELSE delete_counted(fs, pathname, fs.files[pathname],
                        strong_count(fs, pathname))

\* Returns [fsize, ftype]; the mnode must be present.
file_info(fs, mnode) ==
    IF fs.mnodes[mnode].node_type = "Directory"
    THEN [fsize |-> 0, ftype |-> 1]
    ELSE [fsize |-> get_file_size(fs.mnodes[mnode]), ftype |-> 2]

(***************************************************************************)
(* FileDesc (kernel/src/mlnrfs/fd.rs): the per-process fd table.           *)
(***************************************************************************)
NoFd == [used |-> FALSE, mnode |-> 0, flags |-> {}, offset |-> 0]
DefaultFd == [used |-> TRUE, mnode |-> 0, flags |-> {}, offset |-> 0]

FileDesc_default == [present |-> TRUE, fds |-> [i \in FdIds |-> NoFd]]
NoProcess == [present |-> FALSE, fds |-> [i \in FdIds |-> NoFd]]

FreeFds(fdesc) == {i \in FdIds : ~fdesc.fds[i].used}

Highest(free) == CHOOSE i \in free : \A j \in free : i >= j

\* The lowest index of a non-empty set of indices.
Lowest(free) == CHOOSE i \in free : \A j \in free : i <= j

\* allocate_fd with the free slots known.
allocate_from(fdesc, free) ==
    IF free = {}
    THEN [some |-> FALSE, fd |-> 0, fdesc |-> fdesc]
    ELSE [some |-> TRUE, fd |-> Lowest(free),
          fdesc |-> [fdesc EXCEPT !.fds[Lowest(free)] = DefaultFd]]

\* Returns [some, fd, fdesc].
allocate_fd(fdesc) == allocate_from(fdesc, FreeFds(fdesc))

deallocate_fd(fdesc, fd) ==
    IF fd \in FdIds /\ fdesc.fds[fd].used
    THEN [fdesc EXCEPT !.fds[fd] = NoFd]
    ELSE fdesc

\* The Result of deallocate_fd(fd).
deallocate_fd_result(fdesc, fd) ==
    IF fd \in FdIds /\ fdesc.fds[fd].used THEN Ok("Fd", fd)
    ELSE Err("InternalError")

\* get_fd(index): indexing the slot array past its end panics.
get_fd(fdesc, index) ==
    IF index \notin FdIds THEN Panic("index out of bounds")
    ELSE IF fdesc.fds[index].used THEN Ok("Fd", index)
    ELSE Err("InternalError")

update_fd(slot, mnode, flags) == [slot EXCEPT !.mnode = mnode, !.flags = flags]

update_offset(slot, new_offset) == [slot EXCEPT !.offset = new_offset]


(***************************************************************************)
(* MlnrKernelNode (kernel/src/mlnr.rs)                                     *)
(***************************************************************************)
MlnrKernelNode_default ==
    [counters |-> [t \in Tids |-> 0],
     process_map |-> [p \in Pids |-> NoProcess],
     fs |-> MlnrFS_default,
     status |-> "running"]

\* A panic (unwrap on None, unimplemented!) stops the reducer where it is.
Panicked(st, msg) == [st |-> [st EXCEPT !.status = "panicked"], resp |-> Panic(msg)]

\* A read reducer that advances the fd offset of a FileRead.
dispatch_advancing(st, op) ==
    [st |-> IF op.type = "FileRead" /\ st.process_map[op.pid].present
               /\ st.process_map[op.pid].fds[op.fd].used
            THEN [st EXCEPT !.process_map[op.pid].fds[op.fd].offset = @ + op.len]
            ELSE st,
     resp |-> Ok("Incremented", st.counters[0])]

\* The read reducer: [st, resp].
dispatch(st, op) ==
    [st |-> st, resp |-> Ok("Incremented", st.counters[0])]

Increment_post(st, tid) ==
    [st |-> [st EXCEPT !.counters[tid] = @ + 1],
     resp |-> Ok("Incremented", st.counters[tid] + 1)]

\* Modify::Increment
Increment(st, tid) ==
    [st |-> [st EXCEPT !.counters[tid] = @ + 1],
     resp |-> Ok("Incremented", st.counters[tid])]

\* Modify::ProcessAdd
ProcessAdd(st, pid) ==
    [st |-> [st EXCEPT !.process_map[pid] = FileDesc_default],
     resp |-> IF st.process_map[pid].present
              THEN Err("ProcessError::NotEnoughMemory")
              ELSE Ok("ProcessAdded", pid)]

MissingWithoutCreate_never(mnode, flags) == FALSE

\* FileOpen: the path is not bound and CREATE is not set.
MissingWithoutCreate(mnode, flags) == mnode = NoMnode /\ ~is_create(flags)

RollbackFd_skip(fdesc, fd) == fdesc

\* FileOpen: give back the fd allocated before the creation failed.
RollbackFd(fdesc, fd) == deallocate_fd(fdesc, fd)

\* FileOpen after MlnrFS::create returned c for the allocated fd.
FileOpen_created(st1, pid, flags, fd, c) ==
    IF c.res = "Ok"
    THEN [st |-> [st1 EXCEPT !.fs = c.fs,
                             !.process_map[pid].fds[fd] = update_fd(@, c.val, flags)],
          resp |-> Ok("FileOpened", fd)]
    ELSE [st |-> [st1 EXCEPT !.fs = c.fs,
                             !.process_map[pid] = RollbackFd(@, fd)],
          resp |-> Err(c.res)]

\* FileOpen with the fd allocated (st1 holds the table with the new slot).
FileOpen_bind(st1, pid, filename, flags, modes, oom, mnode, fd) ==
    IF mnode = NoMnode
    THEN FileOpen_created(st1, pid, flags, fd,
                          create(st1.fs, filename, modes, oom))
    ELSE IF is_truncate(flags)
    THEN Panicked(st1, "not implemented: truncate")
    ELSE [st |-> [st1 EXCEPT !.process_map[pid].fds[fd] =
                                 update_fd(@, mnode, flags)],
          resp |-> Ok("FileOpened", fd)]

\* FileOpen after allocate_fd returned a.
FileOpen_allocated(st, pid, filename, flags, modes, oom, mnode, a) ==
    IF ~a.some
    THEN [st |-> st, resp |-> Err("NotSupported")]
    ELSE FileOpen_bind([st EXCEPT !.process_map[pid] = a.fdesc],
                       pid, filename, flags, modes, oom, mnode, a.fd)

\* FileOpen after the lookup returned mnode.
FileOpen_found(st, pid, filename, flags, modes, oom, mnode) ==
    IF MissingWithoutCreate(mnode, flags)
    THEN [st |-> st, resp |-> Err("PermissionError")]
    ELSE IF ~st.process_map[pid].present
    THEN Panicked(st, "unwrap on None")
    ELSE FileOpen_allocated(st, pid, filename, flags, modes, oom, mnode,
                            allocate_fd(st.process_map[pid]))

\* Modify::FileOpen
FileOpen(st, pid, filename, flags, modes, oom) ==
    FileOpen_found(st, pid, filename, flags, modes, oom, lookup(st.fs, filename))

EffectiveOffset_stored(st, slot, offset) ==
    IF offset # -1 THEN offset ELSE slot.offset

WritePermitted_any(flags) == TRUE

\* FileWrite: the fd must carry the WRITE flag.
WritePermitted(flags) == is_write(flags)

\* The offset FileWrite writes at.
EffectiveOffset(st, slot, offset) ==
    IF offset # -1 THEN offset
    ELSE IF is_append(slot.flags) THEN file_info(st.fs, slot.mnode).fsize
    ELSE slot.offset

\* FileWrite after MlnrFS::write at curr_offset returned w.
FileWrite_written(st, pid, fd, offset, curr_offset, w) ==
    IF w.res = "Ok"
    THEN [st |-> IF offset = -1
                 THEN [st EXCEPT !.fs = w.fs,
                                 !.process_map[pid].fds[fd] =
                                     update_offset(@, curr_offset + w.val)]
                 ELSE [st EXCEPT !.fs = w.fs],
          resp |-> Ok("FileAccessed", w.val)]
    ELSE [st |-> [st EXCEPT !.fs = w.fs], resp |-> Err(w.res)]

\* FileWrite with the effective offset chosen.
FileWrite_at(st, pid, fd, mnode_num, kernslice, offset, curr_offset, oom) ==
    FileWrite_written(st, pid, fd, offset, curr_offset,
                      MlnrFS_write(st.fs, mnode_num, kernslice, curr_offset, oom))

\* FileWrite with the fd's slot looked up.
FileWrite_fd(st, pid, fd, slot, kernslice, offset, oom) ==
    IF ~WritePermitted(slot.flags)
    THEN [st |-> st, resp |-> Err("PermissionError")]
    ELSE IF offset = -1 /\ is_append(slot.flags)
            /\ ~(slot.mnode \in MnodeIds /\ st.fs.mnodes[slot.mnode].present)
    THEN Panicked(st, "file_info: shouldn't reach here")
    ELSE FileWrite_at(st, pid, fd, slot.mnode, kernslice, offset,
                      EffectiveOffset(st, slot, offset), oom)

\* Modify::FileWrite
FileWrite(st, pid, fd, kernslice, offset, oom) ==
    IF ~st.process_map[pid].present
    THEN Panicked(st, "unwrap on None")
    ELSE IF ~(fd \in FdIds /\ st.process_map[pid].fds[fd].used)
    THEN Panicked(st, "get_fd on an empty slot")
    ELSE FileWrite_fd(st, pid, fd, st.process_map[pid].fds[fd],
                      kernslice, offset, oom)

\* Modify::ProcessRemove, FileClose, FileDelete, FileRename
Unimplemented(st, what) == Panicked(st, "not implemented")

\* The write reducer: [st, resp].
dispatch_mut(st, op, oom) ==
    CASE op.type = "Increment" -> Increment(st, op.tid)
      [] op.type = "ProcessAdd" -> ProcessAdd(st, op.pid)
      [] op.type = "FileOpen" ->
            FileOpen(st, op.pid, op.path, op.flags, op.modes, oom)
      [] op.type = "FileWrite" ->
            FileWrite(st, op.pid, op.fd, op.buf, op.off, oom)
      [] OTHER -> Unimplemented(st, op.type)

(***************************************************************************)
(* ModelFIO (usr/init/src/fs.rs): the reference model the file system is   *)
(* tested against.  It logs creations and writes and answers reads from    *)
(* the log.  A write is logged as (mnode, offset, pattern, length).        *)
(***************************************************************************)
is_writable(modes) == (modes \div 128) % 2 = 1
is_readable(modes) == (modes \div 256) % 2 = 1

ModelCreated(path, modes, mnode) ==
    [kind |-> "Created", path |-> path, modes |-> modes, mnode |-> mnode,
     off |-> 0, pattern |-> 0, len |-> 0]
ModelWrite(mnode, off, pattern, len) ==
    [kind |-> "Write", path |-> "", modes |-> 0, mnode |-> mnode,
     off |-> off, pattern |-> pattern, len |-> len]

ModelFIO_default ==
    [oplog |-> <<ModelCreated("/", 0, 1)>>,
     mnode_counter |-> 1,
     fds |-> FileDesc_default]

\* Index of the latest Created entry of a path, 0 if there is none.
path_to_idx(oplog, path) ==
    LET idxs == {i \in 1 .. Len(oplog) :
                    oplog[i].kind = "Created" /\ oplog[i].path = path}
    IN  IF idxs = {} THEN 0 ELSE CHOOSE i \in idxs : \A j \in idxs : j <= i

path_to_mnode(oplog, path) ==
    IF path_to_idx(oplog, path) = 0 THEN NoMnode
    ELSE oplog[path_to_idx(oplog, path)].mnode

mnode_exists(oplog, look_for) ==
    \E i \in 1 .. Len(oplog) :
        oplog[i].kind = "Created" /\ oplog[i].mnode = look_for

\* file_size scans the log backwards from entry i with the maximum so far.
RECURSIVE FileSizeFrom(_, _, _, _)
FileSizeFrom(oplog, i, look_for, len) ==
    IF i = 0 THEN len
    ELSE IF oplog[i].kind = "Write"
    THEN FileSizeFrom(oplog, i - 1, look_for,
                      IF oplog[i].mnode = look_for
                      THEN Max(oplog[i].off + oplog[i].len, len) ELSE len)
    ELSE IF oplog[i].mnode = look_for THEN len
    ELSE FileSizeFrom(oplog, i - 1, look_for, len)

file_size(oplog, look_for) == FileSizeFrom(oplog, Len(oplog), look_for, 0)

RECURSIVE FilterLog(_, _, _, _)
FilterLog(oplog, look_for, remove_created, remove_write) ==
    IF Len(oplog) = 0 THEN <<>>
    ELSE LET x == Head(oplog)
             drop == /\ x.mnode = look_for
                     /\ \/ (x.kind = "Write" /\ remove_write)
                        \/ (x.kind = "Created" /\ remove_created)
             rest == FilterLog(Tail(oplog), look_for, remove_created, remove_write)
         IN  IF drop THEN rest ELSE <<x>> \o rest

remove_entries(oplog, look_for, remove_created, remove_write) ==
    FilterLog(oplog, look_for, remove_created, remove_write)

\* ModelFIO::open: [res, val, mfs].
ModelFIO_open(m, path, flags, modes) ==
    IF is_append(flags) /\ is_truncate(flags)
    THEN [res |-> "InternalError", val |-> 0, mfs |-> m]
    ELSE IF path_to_mnode(m.oplog, path) # NoMnode
    THEN LET mnode == path_to_mnode(m.oplog, path)
             size == file_size(m.oplog, mnode)
             old_modes == m.oplog[path_to_idx(m.oplog, path)].modes
             a == allocate_fd(m.fds)
             bound == [a.fdesc EXCEPT !.fds[a.fd] = update_fd(@, mnode, flags)]
         IN  IF ~a.some THEN [res |-> "InternalError", val |-> 0, mfs |-> m]
             ELSE IF is_append(flags)
             THEN [res |-> "Ok", val |-> a.fd,
                   mfs |-> [m EXCEPT !.fds =
                               [bound EXCEPT !.fds[a.fd] = update_offset(@, size)]]]
             ELSE IF is_truncate(flags)
             THEN IF is_writable(old_modes)
                  THEN [res |-> "Ok", val |-> a.fd,
                        mfs |-> [m EXCEPT
                                   !.fds = bound,
                                   !.oplog = remove_entries(@, mnode, FALSE, TRUE)]]
                  ELSE [res |-> "InternalError", val |-> 0,
                        mfs |-> [m EXCEPT !.fds = deallocate_fd(bound, a.fd)]]
             ELSE [res |-> "Ok", val |-> a.fd, mfs |-> [m EXCEPT !.fds = bound]]
    ELSE IF ~is_create(flags)
    THEN [res |-> "InternalError", val |-> 0, mfs |-> m]
    ELSE LET mnode == m.mnode_counter + 1
             m1 == [m EXCEPT !.mnode_counter = mnode,
                             !.oplog = Append(@, ModelCreated(path, modes, mnode))]
             a == allocate_fd(m.fds)
         IN  IF ~a.some THEN [res |-> "InternalError", val |-> 0, mfs |-> m1]
             ELSE [res |-> "Ok", val |-> a.fd,
                   mfs |-> [m1 EXCEPT !.fds =
                               [a.fdesc EXCEPT !.fds[a.fd] =
                                                  update_fd(@, mnode, flags)]]]

\* Some Created entry of the mnode lacks the write (read) mode bit.
ModeDenies(oplog, mnode, writing) ==
    \E i \in 1 .. Len(oplog) :
        /\ oplog[i].kind = "Created"
        /\ oplog[i].mnode = mnode
        /\ IF writing THEN ~is_writable(oplog[i].modes)
                      ELSE ~is_readable(oplog[i].modes)

\* ModelFIO::write_at: [res, val, mfs].  The buffer repeats its first byte.
ModelFIO_write_at(m, fid, buffer, len, offset) ==
    IF len = 0 THEN [res |-> "BadFileDescriptor", val |-> 0, mfs |-> m]
    ELSE IF ~m.fds.fds[fid].used
    THEN [res |-> "InternalError", val |-> 0, mfs |-> m]
    ELSE LET fd == m.fds.fds[fid]
             mnode == fd.mnode
             my_offset == IF offset # -1 THEN offset
                          ELSE IF is_append(fd.flags)
                          THEN file_size(m.oplog, mnode)
                          ELSE fd.offset
         IN  IF ~is_write(fd.flags) \/ ~mnode_exists(m.oplog, mnode)
                \/ ModeDenies(m.oplog, mnode, TRUE)
             THEN [res |-> "InternalError", val |-> 0, mfs |-> m]
             ELSE [res |-> "Ok", val |-> len,
                   mfs |-> [m EXCEPT
                              !.oplog = Append(@, ModelWrite(mnode, my_offset,
                                                             buffer[1], len)),
                              !.fds.fds[fid] =
                                  IF offset = -1
                                  THEN update_offset(@, my_offset + len)
                                  ELSE @]]

\* The byte the latest logged write of the mnode put at position pos, 0 if
\* no write covers it.
GatheredByte(oplog, mnode, pos) ==
    LET idxs == {i \in 1 .. Len(oplog) :
                    /\ oplog[i].kind = "Write"
                    /\ oplog[i].mnode = mnode
                    /\ oplog[i].off <= pos
                    /\ pos < oplog[i].off + oplog[i].len}
    IN  IF idxs = {} THEN 0
        ELSE oplog[CHOOSE i \in idxs : \A j \in idxs : j <= i].pattern

\* ModelFIO::read_at: [res, val, bytes, mfs].
ModelFIO_read_at(m, fid, len, offset) ==
    IF len = 0
    THEN [res |-> "BadFileDescriptor", val |-> 0, bytes |-> <<>>, mfs |-> m]
    ELSE IF ~m.fds.fds[fid].used
    THEN [res |-> "InternalError", val |-> 0, bytes |-> <<>>, mfs |-> m]
    ELSE LET fd == m.fds.fds[fid]
             mnode == fd.mnode
             my_offset == IF offset = -1 THEN fd.offset ELSE offset
             size == file_size(m.oplog, mnode)
             expected_bytes == Min(size - my_offset, len)
         IN  IF ~is_read(fd.flags) \/ ~mnode_exists(m.oplog, mnode)
                \/ ModeDenies(m.oplog, mnode, FALSE)
             THEN [res |-> "InternalError", val |-> 0, bytes |-> <<>>, mfs |-> m]
             ELSE IF my_offset >= size
             THEN [res |-> "Ok", val |-> 0, bytes |-> <<>>, mfs |-> m]
             ELSE [res |-> "Ok", val |-> expected_bytes,
                   bytes |-> [i \in 1 .. expected_bytes |->
                                 GatheredByte(m.oplog, mnode, my_offset + i - 1)],
                   mfs |-> IF offset = -1
                           THEN [m EXCEPT !.fds.fds[fid] =
                                    update_offset(@, my_offset + expected_bytes)]
                           ELSE m]

(***************************************************************************)
(* The operations the replication layer can hand to the reducers.          *)
(***************************************************************************)
NoOp == [type |-> "None"]
OpIncrement(tid) == [type |-> "Increment", tid |-> tid]
OpProcessAdd(pid) == [type |-> "ProcessAdd", pid |-> pid]
OpFileOpen(pid, path, flags, modes) ==
    [type |-> "FileOpen", pid |-> pid, path |-> path, flags |-> flags,
     modes |-> modes]
OpFileWrite(pid, fd, buf, off) ==
    [type |-> "FileWrite", pid |-> pid, fd |-> fd, buf |-> buf,
     len |-> Len(buf), off |-> off]
OpOther(type, pid) == [type |-> type, pid |-> pid]
OpGet == [type |-> "Get"]
OpFileRead(pid, fd, len, off) ==
    [type |-> "FileRead", pid |-> pid, fd |-> fd, len |-> len, off |-> off]
OpFileInfo(pid, path) == [type |-> "FileInfo", pid |-> pid, path |-> path]
OpCreate(path, modes) == [type |-> "MlnrFS::create", path |-> path, modes |-> modes]
OpDelete(path) == [type |-> "MlnrFS::delete", path |-> path]
OpWriteFile(buf, len, off) ==
    [type |-> "write_file", buf |-> buf, len |-> len, off |-> off]
OpResizeFile(len) == [type |-> "resize_file", len |-> len]

ReadOps ==
    {OpGet} \cup {OpFileRead(1, f, 3, o) : f \in FdIds, o \in {-1, 0}}
            \cup {OpFileInfo(1, "/a")}

ReadTypes == {"Get", "FileRead", "FileInfo"}
OtherTypes == {"ProcessRemove", "FileClose", "FileDelete", "FileRename"}

(***************************************************************************)
(* Frame: a physical region [base, base + size) with a NUMA affinity.      *)
(***************************************************************************)
PagesPerLargePage == 3
MaxFramePages == 4
MaxNones == 2

LARGE_PAGE_SIZE == PagesPerLargePage * BASE_PAGE_SIZE

NodeIds == {0, 1}
FrameBases == {p * BASE_PAGE_SIZE : p \in 0 .. (2 * PagesPerLargePage - 1)}
FrameSizes == {p * BASE_PAGE_SIZE : p \in 0 .. MaxFramePages}
SplitSizes == {p * BASE_PAGE_SIZE : p \in 0 .. (MaxFramePages + 1)}

Frame_new(base, size, affinity) ==
    [base |-> base, size |-> size, affinity |-> affinity]

Frame_empty == Frame_new(0, 0, 0)

round_down(num, s) == (num \div s) * s

round_up(num, s) == ((num + s - 1) \div s) * s

\* A split whose high part starts where the low part starts.
split_at_overlapping(self, size) ==
    IF size >= self.size THEN <<self, Frame_empty>>
    ELSE <<Frame_new(self.base, size, self.affinity),
           Frame_new(self.base, self.size - size, self.affinity)>>

split_at(self, size) ==
    IF size >= self.size THEN <<self, Frame_empty>>
    ELSE <<Frame_new(self.base, size, self.affinity),
           Frame_new(self.base + size, self.size - size, self.affinity)>>

split_at_nearest_large_page_boundary(self) ==
    IF self.base % LARGE_PAGE_SIZE = 0 THEN <<Frame_empty, self>>
    ELSE split_at(self, round_up(self.base, LARGE_PAGE_SIZE) - self.base)

\* An iterator step that ends one page early.
IntoBasePageIter_next_dropping(frame) ==
    IF frame.size > BASE_PAGE_SIZE
    THEN [some |-> TRUE, item |-> split_at(frame, BASE_PAGE_SIZE)[1],
          frame |-> split_at(frame, BASE_PAGE_SIZE)[2]]
    ELSE [some |-> FALSE, item |-> Frame_empty, frame |-> frame]

\* IntoBasePageIter::next: the item yielded, if any, and the iterator's frame.
IntoBasePageIter_next(frame) ==
    IF frame.size > BASE_PAGE_SIZE
    THEN [some |-> TRUE, item |-> split_at(frame, BASE_PAGE_SIZE)[1],
          frame |-> split_at(frame, BASE_PAGE_SIZE)[2]]
    ELSE IF frame.size = BASE_PAGE_SIZE
    THEN [some |-> TRUE, item |-> frame, frame |-> Frame_empty]
    ELSE [some |-> FALSE, item |-> Frame_empty, frame |-> frame]

\* A frame f, the result of the last split of it, and f.into_iter() with the
\* frames it has yielded and the number of times it has returned None.
FrameState(f) ==
    [f |-> f, op |-> "new", k |-> 0, low |-> Frame_empty, high |-> Frame_empty,
     it |-> f, out |-> <<>>, nones |-> 0]

(***************************************************************************)
(* KernelAllocator: the zone allocator in front of the physical memory     *)
(* manager of the KCB.                                                     *)
(***************************************************************************)
MaxPages == 2
ObjectsPerPage == 2

MAX_BASE_ALLOC_SIZE == BASE_PAGE_SIZE - 1
MAX_ALLOC_SIZE == LARGE_PAGE_SIZE - 2

HeapSizes == 1 .. (LARGE_PAGE_SIZE + 1)

NullPtr == Ok("Ptr", 0)
NonNullPtr == Ok("Ptr", 1)

Aligns == {1, BASE_PAGE_SIZE}
Layouts == [size : HeapSizes, align : Aligns]

\* zone and pages count the free objects and pages of each kind, live the
\* blocks handed out per layout, calls the calls made by the last operation.
Kcb(base_pages, large_pages) ==
    [kcb |-> TRUE, zone |-> [base |-> 0, large |-> 0],
     pages |-> [base |-> base_pages, large |-> large_pages],
     live |-> [l \in Layouts |-> 0], calls |-> <<>>]

NoKcb == [Kcb(0, 0) EXCEPT !.kcb = FALSE]

\* The kind of page that backs an allocation of the given size.
PageKind(size) ==
    IF size <= MAX_ALLOC_SIZE /\ size # BASE_PAGE_SIZE
    THEN IF size <= MAX_BASE_ALLOC_SIZE THEN "base" ELSE "large"
    ELSE IF size <= BASE_PAGE_SIZE THEN "base" ELSE "large"

\* The OutOfMemory arm: take a page, refill the zone allocator, allocate.
\* The zone allocator stays borrowed from the first allocate to the end.
Refilled(h, kind) ==
    IF h.pages[kind] = 0
    THEN [resp |-> Panic("TODO(error) handle refill-alloc " \o kind \o "-page failure"),
          heap |-> [h EXCEPT !.calls =
                        <<"zone.borrow_mut", "zone.allocate", "pm.borrow_mut",
                          "pm.allocate_page">>]]
    ELSE [resp |-> NonNullPtr,
          heap |-> [h EXCEPT !.pages[kind] = @ - 1,
                             !.zone[kind] = ObjectsPerPage - 1,
                             !.calls =
                        <<"zone.borrow_mut", "zone.allocate", "pm.borrow_mut",
                          "pm.allocate_page", "zone.refill", "zone.allocate",
                          "pm.drop", "zone.drop">>]]

\* A small object from the zone allocator.
ZoneAlloc(h, kind) ==
    IF h.zone[kind] > 0
    THEN [resp |-> NonNullPtr,
          heap |-> [h EXCEPT !.zone[kind] = @ - 1,
                             !.calls = <<"zone.borrow_mut", "zone.allocate",
                                         "zone.drop">>]]
    ELSE Refilled(h, kind)

\* A whole base or large page from the physical memory manager.
PageAlloc(h, kind) ==
    IF h.pages[kind] = 0
    THEN [resp |-> NullPtr, heap |-> [h EXCEPT !.calls = <<"pm.allocate_page">>]]
    ELSE [resp |-> NonNullPtr,
          heap |-> [h EXCEPT !.pages[kind] = @ - 1,
                             !.calls = <<"pm.allocate_page">>]]

alloc(h, size) ==
    IF ~h.kcb THEN [resp |-> NullPtr, heap |-> h]
    ELSE IF size <= MAX_ALLOC_SIZE /\ size # BASE_PAGE_SIZE
    THEN ZoneAlloc(h, PageKind(size))
    ELSE IF size <= LARGE_PAGE_SIZE
    THEN PageAlloc(h, PageKind(size))
    ELSE [resp |-> Panic("unreachable: allocate >= 2 MiB"), heap |-> h]

dealloc(h, layout) ==
    IF ~h.kcb
    THEN [resp |-> Panic("unreachable: deallocate without a KCB"), heap |-> h]
    ELSE IF layout.size <= MAX_ALLOC_SIZE /\ layout.size # BASE_PAGE_SIZE
    THEN [resp |-> Ok("Unit", 0),
          heap |-> [h EXCEPT !.zone[PageKind(layout.size)] = @ + 1,
                             !.calls = <<"zone.borrow_mut", "zone.deallocate",
                                         "zone.drop">>]]
    ELSE IF layout.size # BASE_PAGE_SIZE
    THEN [resp |-> Panic("assertion failed: layout.size() == BASE_PAGE_SIZE"),
          heap |-> h]
    ELSE IF layout.align # BASE_PAGE_SIZE
    THEN [resp |-> Panic("assertion failed: layout.align() == BASE_PAGE_SIZE"),
          heap |-> h]
    ELSE [resp |-> Ok("Unit", 0),
          heap |-> [h EXCEPT !.pages.base = @ + 1,
                             !.calls = <<"pm.release_page">>]]

(***************************************************************************)
(* VSpace of the unix platform: the recorded mappings.                     *)
(***************************************************************************)
VBases == {0, BASE_PAGE_SIZE, LARGE_PAGE_SIZE}
MapActions == {"ReadUser", "ReadWriteUser"}

VSpace_new == [mappings |-> {}]

MappingInfo_new(frame, action) == [frame |-> frame, rights |-> action]

vrange(ma, base) == <<base, base + ma.frame.size>>

\* HashMap::insert: a mapping of the same range is replaced.
Inserted(mappings, range, ma) ==
    {m \in mappings : m.range # range} \cup {[range |-> range, info |-> ma]}

map_frame(vs, base, frame, action) ==
    [resp |-> Panic("not implemented: map_frame"),
     vspace |-> [vs EXCEPT !.mappings =
                    Inserted(@, vrange(MappingInfo_new(frame, action), base),
                             MappingInfo_new(frame, action))]]

resolve(vs, vaddr) == Panic("not implemented: resolve")

unmap(vs, vaddr) == Panic("not implemented: unmap")


(***************************************************************************)
(* GlobalMemory::new: one early TCache per NUMA node, carved out of the     *)
(* initial frames.                                                          *)
(***************************************************************************)
EmemBasePages == 1
MaxRegions == 2

EMEM_SIZE == 2 * LARGE_PAGE_SIZE + EmemBasePages * BASE_PAGE_SIZE

\* The initial frame lists: region i lies in its own stretch of physical
\* memory, starts on any page of a large page and is a page smaller than
\* EMEM_SIZE, or one or two pages larger.
RegionStride == 4 * LARGE_PAGE_SIZE
RegionFrames(i) ==
    {Frame_new(i * RegionStride + p * BASE_PAGE_SIZE,
               EMEM_SIZE + d * BASE_PAGE_SIZE, n) :
        p \in 0 .. (PagesPerLargePage - 1), d \in {-1, 1, 2}, n \in NodeIds}
Memories ==
    UNION {[1 .. len -> UNION {RegionFrames(i) : i \in 1 .. len}] :
              len \in 1 .. MaxRegions}

GlobalMemory_default == [memory |-> <<>>, emem |-> <<>>, status |-> "default"]

max_affinity(memory) ==
    1 + CHOOSE a \in NodeIds :
            /\ \E i \in 1 .. Len(memory) : memory[i].affinity = a
            /\ \A i \in 1 .. Len(memory) : memory[i].affinity <= a

\* The frame handed to the early TCache of a node.
emem_of(frame) ==
    split_at(split_at_nearest_large_page_boundary(frame)[2], EMEM_SIZE)[1]

\* The loop over the initial frames: the early frames chosen so far.
RECURSIVE EmemLoop(_, _, _)
EmemLoop(memory, i, emem) ==
    IF i > Len(memory) THEN emem
    ELSE IF memory[i].affinity = Len(emem) /\ memory[i].size > EMEM_SIZE
    THEN EmemLoop(memory, i + 1, Append(emem, emem_of(memory[i])))
    ELSE EmemLoop(memory, i + 1, emem)

\* The early TCaches, or the panic of the assertion that every node has one.
Constructed(memory, emem) ==
    [memory |-> memory, emem |-> emem,
     status |-> IF Len(emem) = max_affinity(memory) THEN "ok" ELSE "panicked"]

GlobalMemory_new(memory) == Constructed(memory, EmemLoop(memory, 1, <<>>))

(***************************************************************************)
(* The x86-64 VSpace: four levels of page tables filled from a             *)
(* FrameManager. An entry is named by the indices that lead to it and      *)
(* holds the frame it points to.                                           *)
(***************************************************************************)
PAGE_SIZE_ENTRIES == 2
MaxTableFrames == 9
MaxMapSize == 5
MaxTableOps == 2

VAddrs == 0 .. (PAGE_SIZE_ENTRIES * PAGE_SIZE_ENTRIES * PAGE_SIZE_ENTRIES
                    * BASE_PAGE_SIZE + BASE_PAGE_SIZE)

pt_index(v) == (v \div BASE_PAGE_SIZE) % PAGE_SIZE_ENTRIES
pd_index(v) == (v \div (BASE_PAGE_SIZE * PAGE_SIZE_ENTRIES)) % PAGE_SIZE_ENTRIES
pdpt_index(v) ==
    (v \div (BASE_PAGE_SIZE * PAGE_SIZE_ENTRIES * PAGE_SIZE_ENTRIES))
        % PAGE_SIZE_ENTRIES
pml4_index(v) ==
    (v \div (BASE_PAGE_SIZE * PAGE_SIZE_ENTRIES * PAGE_SIZE_ENTRIES
                 * PAGE_SIZE_ENTRIES)) % PAGE_SIZE_ENTRIES

\* The entries present, the frames the FrameManager has left, and whether an
\* unwrap of a failed allocation has panicked.
PageTables_new == [entries |-> <<>>, free |-> MaxTableFrames, panicked |-> FALSE]

Present(vs, path) == path \in DOMAIN vs.entries

\* new_pdpt / new_pd / new_pt / new_page and unwrap, for an entry not present.
Ensure(vs, path) ==
    IF vs.panicked \/ Present(vs, path) THEN vs
    ELSE IF vs.free = 0 THEN [vs EXCEPT !.panicked = TRUE]
    ELSE [vs EXCEPT !.entries = @ @@ (path :> (MaxTableFrames - vs.free + 1)),
                    !.free = @ - 1]

\* The loop over the entries of one page table.
RECURSIVE MapPages(_, _, _, _, _)
MapPages(vs, pd, pt_idx, mapped, size) ==
    IF mapped < size /\ pt_idx < PAGE_SIZE_ENTRIES
    THEN MapPages(Ensure(vs, Append(pd, pt_idx)), pd, pt_idx + 1,
                  mapped + BASE_PAGE_SIZE, size)
    ELSE [vs |-> vs, mapped |-> mapped]

\* The tables that lead to the page table of base.
Walked(vs, base) ==
    Ensure(Ensure(Ensure(vs, <<pml4_index(base)>>),
                  <<pml4_index(base), pdpt_index(base)>>),
           <<pml4_index(base), pdpt_index(base), pd_index(base)>>)

RECURSIVE VSpace_map(_, _, _)
MapRest(r, base, size) ==
    IF r.mapped < size /\ ~r.vs.panicked
    THEN VSpace_map(r.vs, base + r.mapped, size - r.mapped)
    ELSE r.vs

VSpace_map(vs, base, size) ==
    MapRest(MapPages(Walked(vs, base),
                     <<pml4_index(base), pdpt_index(base), pd_index(base)>>,
                     pt_index(base), 0, size),
            base, size)

\* The page-table walk: the frame of the page of base, or 0 for None.
VSpace_resolve(vs, base) ==
    IF /\ Present(vs, <<pml4_index(base)>>)
       /\ Present(vs, <<pml4_index(base), pdpt_index(base)>>)
       /\ Present(vs, <<pml4_index(base), pdpt_index(base), pd_index(base)>>)
       /\ Present(vs, <<pml4_index(base), pdpt_index(base), pd_index(base),
                        pt_index(base)>>)
    THEN vs.entries[<<pml4_index(base), pdpt_index(base), pd_index(base),
                      pt_index(base)>>]
    ELSE 0

(***************************************************************************)
(* One MlnrFS shared by several threads (unsafe impl Sync for MlnrFS): the *)
(* two RwLocks, the Arc clones lookup has handed out, and the RefCell      *)
(* borrow flag of every MemNode.  A thread is idle or inside one call;     *)
(* arg holds the locals of the call it is in.                              *)
(***************************************************************************)
MaxThreads == 2
MaxSharedMnode == 3
MaxSharedOps == 4

Threads == 1 .. MaxThreads
SharedPaths == {"/", "/a"}
SharedMnodes == 1 .. MaxSharedMnode

\* files_writer: the thread that holds files.write(), 0 for none.
\* mnodes_readers: the threads that hold mnodes.read().
\* borrow: the BorrowFlag of each RefCell<MemNode>, 0 unused, negative for a
\* RefMut, positive for the number of Refs.
MlnrFS_shared ==
    [files |-> [p \in SharedPaths |-> IF p = "/" THEN 1 ELSE 0],
     mnodes |-> {1},
     nextmemnode |-> 2,
     files_writer |-> 0,
     mnodes_readers |-> {},
     borrow |-> [m \in SharedMnodes |-> 0],
     pc |-> [t \in Threads |-> "idle"],
     arg |-> [t \in Threads |->
                 [type |-> "none", path |-> "/", mnode |-> 0, seen |-> 0]],
     held |-> [t \in Threads |-> 0],
     panicked |-> FALSE]

Pending == [tag |-> "Pending", kind |-> "", val |-> 0]

\* The call of thread t goes on / returns resp / panics.
Going(c) == [c |-> c, resp |-> Pending]
Back(c, t, resp) == [c |-> [c EXCEPT !.pc[t] = "idle"], resp |-> resp]
Unwound(c, msg) == [c |-> [c EXCEPT !.panicked = TRUE], resp |-> Panic(msg)]

\* lookup: files.read().get(pathname).map(Arc::clone).
lookup_clone(c, t, path) ==
    IF c.files[path] = 0
    THEN Back(c, t, Ok("None", 0))
    ELSE Back([c EXCEPT !.held[t] = c.files[path]], t,
              Ok("Arc", c.files[path]))

\* create up to get_next_mno: the check under files.read() and the fetch_add.
create_check(c, t, path) ==
    IF c.files[path] # 0
    THEN Back(c, t, Err("AlreadyPresent"))
    ELSE Going([c EXCEPT !.pc[t] = "create_bind",
                         !.arg[t] = [type |-> "create", path |-> path,
                                     mnode |-> c.nextmemnode, seen |-> 0],
                         !.nextmemnode = @ + 1])

\* create: files.write().insert(pathname, Arc::new(mnode_num)).
create_bind(c, t) ==
    Going([c EXCEPT !.files[c.arg[t].path] = c.arg[t].mnode,
                    !.pc[t] = "create_node"])

\* create: mnodes.write().insert(mnode_num, RefCell::new(memnode)); Ok.
create_node(c, t) ==
    Back([c EXCEPT !.mnodes = @ \cup {c.arg[t].mnode}], t,
         Ok("Created", c.arg[t].mnode))

\* write / read: mnodes.read().get(&mnode_num); the read guard lives to the
\* end of the match.
access_begin(c, t, type, mnode) ==
    IF mnode \notin c.mnodes
    THEN Back(c, t, Err("InvalidFile"))
    ELSE Going([c EXCEPT !.mnodes_readers = @ \cup {t},
                         !.pc[t] = "borrow_check",
                         !.arg[t] = [type |-> type, path |-> "/",
                                     mnode |-> mnode, seen |-> 0]])

\* borrow_mut() / borrow(): the load of the borrow flag and the test on it.
borrow_check(c, t) ==
    IF c.arg[t].type = "write"
    THEN IF c.borrow[c.arg[t].mnode] = 0
         THEN Going([c EXCEPT !.pc[t] = "borrow_set", !.arg[t].seen = -1])
         ELSE Unwound(c, "already borrowed: BorrowMutError")
    ELSE IF c.borrow[c.arg[t].mnode] + 1 > 0
         THEN Going([c EXCEPT !.pc[t] = "borrow_set",
                              !.arg[t].seen = c.borrow[c.arg[t].mnode] + 1])
         ELSE Unwound(c, "already mutably borrowed: BorrowError")

\* borrow_mut() / borrow(): the store to the borrow flag; the thread is then
\* inside MemNode::write or MemNode::read.
borrow_set(c, t) ==
    Going([c EXCEPT !.borrow[c.arg[t].mnode] = c.arg[t].seen,
                    !.pc[t] = "in_node"])

\* The RefMut / Ref and the read guard are dropped and the call returns.
access_end(c, t) ==
    Back([c EXCEPT !.borrow[c.arg[t].mnode] =
                       IF c.arg[t].type = "write" THEN @ + 1 ELSE @ - 1,
                   !.mnodes_readers = @ \ {t}], t,
         Ok(IF c.arg[t].type = "write" THEN "Written" ELSE "Read",
            c.arg[t].mnode))

\* delete: files.write().remove(pathname); the write guard is a temporary of
\* the match scrutinee and lives until the match ends.
delete_remove(c, t, path) ==
    IF c.files[path] = 0
    THEN Back(c, t, Err("InvalidFile"))
    ELSE Going([c EXCEPT !.files_writer = t,
                         !.files[path] = 0,
                         !.pc[t] = "delete_count",
                         !.arg[t] = [type |-> "delete", path |-> path,
                                     mnode |-> c.files[path], seen |-> 0]])

\* Arc::strong_count of the Arc taken out of the path map: that Arc and the
\* clones from lookup that are alive.
strong_count_shared(c, mnode) ==
    1 + Cardinality({t \in Threads : c.held[t] = mnode})

\* delete: the match on the reference count.
delete_count(c, t) ==
    IF strong_count_shared(c, c.arg[t].mnode) = 1
    THEN Going([c EXCEPT !.pc[t] = "delete_node"])
    ELSE Going([c EXCEPT !.pc[t] = "delete_reinsert"])

\* delete: mnodes.write().remove(&mnode); return Ok(true).
delete_node(c, t) ==
    Back([c EXCEPT !.mnodes = @ \ {c.arg[t].mnode}, !.files_writer = 0], t,
         Ok("Deleted", TRUE))

\* delete: files.write().insert(pathname, mnode); return PermissionError.
delete_reinsert(c, t) ==
    Back([c EXCEPT !.files[c.arg[t].path] = c.arg[t].mnode,
                   !.files_writer = 0], t,
         Err("PermissionError"))

\* The write lock the statement at a thread's position has to take first.
WriteLockWanted(pos) ==
    IF pos \in {"create_bind", "delete_reinsert"} THEN "files"
    ELSE IF pos \in {"create_node", "delete_node"} THEN "mnodes"
    ELSE "none"

\* spin::RwLock::write() gets the lock only when nobody holds it.
WriteLockFree(c, lock) ==
    IF lock = "files" THEN c.files_writer = 0
    ELSE lock = "mnodes" /\ c.mnodes_readers = {}

\* The statement behind the write lock.
write_locked(c, t) ==
    IF c.pc[t] = "create_bind" THEN create_bind(c, t)
    ELSE IF c.pc[t] = "create_node" THEN create_node(c, t)
    ELSE IF c.pc[t] = "delete_node" THEN delete_node(c, t)
    ELSE delete_reinsert(c, t)

(***************************************************************************)
(* TCPClient: the request and response of rpc_call.  A message on the wire *)
(* is the sequence of the header's fields followed by the body's bytes.    *)
(***************************************************************************)
MaxClientId == 1
MaxRespId == 1
MaxRpcOps == 3
MaxBody == 1

ClientIds == 0 .. MaxClientId
RPCTypes == {"Registration", "WriteAt"}
Bodies == {[i \in 1 .. n |-> 7] : n \in 0 .. MaxBody}
RequestData == {<<>>, <<7>>}

RPCHeader(client_id, pid, req_id, msg_type, msg_len) ==
    [client_id |-> client_id, pid |-> pid, req_id |-> req_id,
     msg_type |-> msg_type, msg_len |-> msg_len]

HeaderLen == 5

\* abomonation::encode of an RPCHeader.
encode(hdr) ==
    <<hdr.client_id, hdr.pid, hdr.req_id, hdr.msg_type, hdr.msg_len>>

\* abomonation::decode::<RPCHeader>: None when the bytes are too few for a
\* header, else the header and the bytes that follow it.
decode(bytes) ==
    IF Len(bytes) < HeaderLen
    THEN [some |-> FALSE, hdr |-> RPCHeader(0, 0, 0, "", 0), body |-> <<>>]
    ELSE [some |-> TRUE,
          hdr |-> RPCHeader(bytes[1], bytes[2], bytes[3], bytes[4], bytes[5]),
          body |-> SubSeq(bytes, HeaderLen + 1, Len(bytes))]

\* sent: the last request put on the wire.  succeeded and returned record the
\* number of rpc_calls that returned Ok and what the last rpc_call returned.
TCPClient_new ==
    [client_id |-> 0, req_id |-> 0, server_handle |-> FALSE,
     sent |-> <<>>, succeeded |-> 0, returned |-> Ok("None", 0)]

Malformed(c) == [c |-> c, resp |-> Err("MalformedResponse")]

\* rpc_call that counts the request before it has checked the response.
rpc_checked_counting(c, rpc_id, d) ==
    IF \/ (d.hdr.client_id # c.client_id /\ rpc_id # "Registration")
       \/ d.hdr.req_id # c.req_id
       \/ d.hdr.msg_len # Len(d.body)
    THEN Malformed([c EXCEPT !.req_id = @ + 1])
    ELSE IF rpc_id = "Registration"
    THEN [c |-> [c EXCEPT !.req_id = @ + 1, !.client_id = d.hdr.client_id],
          resp |-> Ok("Body", 0)]
    ELSE [c |-> [c EXCEPT !.req_id = @ + 1], resp |-> Ok("Body", Len(d.body))]

\* rpc_call from the check of the decoded response on.
rpc_checked(c, rpc_id, d) ==
    IF \/ (d.hdr.client_id # c.client_id /\ rpc_id # "Registration")
       \/ d.hdr.req_id # c.req_id
    THEN Malformed(c)
    ELSE IF d.hdr.msg_len # Len(d.body)
    THEN Malformed(c)
    ELSE IF rpc_id = "Registration"
    THEN [c |-> [c EXCEPT !.req_id = @ + 1, !.client_id = d.hdr.client_id],
          resp |-> Ok("Body", 0)]
    ELSE [c |-> [c EXCEPT !.req_id = @ + 1], resp |-> Ok("Body", Len(d.body))]

\* rpc_call once the response has arrived.
rpc_received(c, rpc_id, d) ==
    IF ~d.some
    THEN [c |-> c, resp |-> Panic("called Option::unwrap() on a None value")]
    ELSE rpc_checked(c, rpc_id, d)

\* rpc_call(pid, rpc_id, data) when the peer answers with the bytes res.
rpc_call(c, pid, rpc_id, data, res) ==
    IF ~c.server_handle
    THEN [c |-> c, resp |-> Panic("called Option::unwrap() on a None value")]
    ELSE rpc_received([c EXCEPT !.sent =
                           encode(RPCHeader(c.client_id, pid, c.req_id, rpc_id,
                                            Len(data))) \o data],
                      rpc_id, decode(res))

\* join_cluster once the connection stands: the Registration call, unwrapped.
Joined(r) ==
    [c |-> r.c, call |-> r.resp,
     resp |-> IF r.resp.tag = "Ok" THEN Ok("NodeId", r.c.client_id)
              ELSE IF r.resp.tag = "Panic" THEN r.resp
              ELSE Panic("called Result::unwrap() on an Err value")]

join_cluster(c, res) ==
    Joined(rpc_call([c EXCEPT !.server_handle = TRUE], 0, "Registration",
                    <<>>, res))

Init ==
    /\ node = MlnrKernelNode_default
    /\ last = [op |-> NoOp, resp |-> Ok("None", 0)]
    /\ nops = 0
    /\ node2 = MlnrKernelNode_default
    /\ resp2 = Ok("None", 0)
    /\ mfs = ModelFIO_default
    /\ hist = [created |-> <<>>, inc0 |-> 0]
    /\ file = File_new(S_IRWXU, "none").mcache
    /\ fdtable = FileDesc_default
    /\ fr = FrameState(Frame_empty)
    /\ heap = NoKcb
    /\ vspace = VSpace_new
    /\ gm = GlobalMemory_default
    /\ ptab = PageTables_new
    /\ conc = MlnrFS_shared
    /\ tcp = TCPClient_new

\* The history of a run: the mnodes the successful creations returned, in
\* order, and the number of Increment(0) ops applied.
Record(op, st, r) ==
    hist' = [created |->
                 IF /\ op.type \in {"FileOpen", "MlnrFS::create"}
                    /\ r.resp.tag = "Ok"
                    /\ st.fs.files[op.path] = NoMnode
                 THEN Append(hist.created, r.st.fs.files[op.path])
                 ELSE hist.created,
             inc0 |-> IF op = OpIncrement(0) THEN hist.inc0 + 1 ELSE hist.inc0]

CanStep == node.status = "running" /\ nops < MaxOps

Apply(op, oom, r) ==
    /\ node' = r.st
    /\ last' = [op |-> op, resp |-> r.resp]
    /\ nops' = nops + 1
    /\ Record(op, node, r)
    /\ UNCHANGED <<node2, resp2, mfs, file, fdtable, fr, heap, vspace, gm, ptab, conc, tcp>>

DoIncrement ==
    /\ CanStep
    /\ \E tid \in Tids :
          /\ node.counters[tid] < MaxCount
          /\ Apply(OpIncrement(tid), "none", dispatch_mut(node, OpIncrement(tid), "none"))

DoProcessAdd ==
    /\ CanStep
    /\ \E pid \in Pids :
          Apply(OpProcessAdd(pid), "none", dispatch_mut(node, OpProcessAdd(pid), "none"))

DoFileOpen ==
    /\ CanStep
    /\ node.fs.nextmemnode <= MaxMnode
    /\ \E pid \in Pids, path \in Paths, flags \in FlagSets, modes \in ModeSet,
          oom \in {"none", "new"} :
          LET op == OpFileOpen(pid, path, flags, modes)
          IN  Apply(op, oom, dispatch_mut(node, op, oom))

DoFileWrite ==
    /\ CanStep
    /\ \E pid \in Pids, fd \in FdIds, buf \in Payloads, off \in Offsets,
          oom \in {"none", "resize", "write"} :
          LET op == OpFileWrite(pid, fd, buf, off)
          IN  Apply(op, oom, dispatch_mut(node, op, oom))

DoUnimplemented ==
    /\ CanStep
    /\ \E t \in OtherTypes, pid \in {1} :
          Apply(OpOther(t, pid), "none", dispatch_mut(node, OpOther(t, pid), "none"))

DoDispatch ==
    /\ CanStep
    /\ \E op \in ReadOps : Apply(op, "none", dispatch(node, op))

Next ==
    \/ DoIncrement
    \/ DoProcessAdd
    \/ DoFileOpen
    \/ DoFileWrite
    \/ DoUnimplemented
    \/ DoDispatch

Spec == Init /\ [][Next]_vars

(***************************************************************************)
(* Two replicas applying the same log of write-ops.  Whether an allocation *)
(* fails is decided by each replica's own allocator.                       *)
(***************************************************************************)
CanStepRepl ==
    node.status = "running" /\ node2.status = "running" /\ nops < MaxOps

ApplyRepl(op, r1, r2) ==
    /\ node' = r1.st
    /\ last' = [op |-> op, resp |-> r1.resp]
    /\ node2' = r2.st
    /\ resp2' = r2.resp
    /\ nops' = nops + 1
    /\ Record(op, node, r1)
    /\ UNCHANGED <<mfs, file, fdtable, fr, heap, vspace, gm, ptab, conc, tcp>>

ReplIncrement ==
    /\ CanStepRepl
    /\ \E tid \in Tids :
          /\ node.counters[tid] < MaxCount
          /\ ApplyRepl(OpIncrement(tid),
                       dispatch_mut(node, OpIncrement(tid), "none"),
                       dispatch_mut(node2, OpIncrement(tid), "none"))

ReplProcessAdd ==
    /\ CanStepRepl
    /\ \E pid \in Pids :
          ApplyRepl(OpProcessAdd(pid),
                    dispatch_mut(node, OpProcessAdd(pid), "none"),
                    dispatch_mut(node2, OpProcessAdd(pid), "none"))

ReplFileOpen ==
    /\ CanStepRepl
    /\ node.fs.nextmemnode <= MaxMnode
    /\ node2.fs.nextmemnode <= MaxMnode
    /\ \E pid \in Pids, path \in Paths, flags \in FlagSets, modes \in ModeSet,
          oom1 \in {"none", "new"}, oom2 \in {"none", "new"} :
          LET op == OpFileOpen(pid, path, flags, modes)
          IN  ApplyRepl(op, dispatch_mut(node, op, oom1),
                        dispatch_mut(node2, op, oom2))

ReplFileWrite ==
    /\ CanStepRepl
    /\ \E pid \in Pids, fd \in FdIds, buf \in Payloads, off \in Offsets,
          oom1 \in {"none", "resize", "write"},
          oom2 \in {"none", "resize", "write"} :
          LET op == OpFileWrite(pid, fd, buf, off)
          IN  ApplyRepl(op, dispatch_mut(node, op, oom1),
                        dispatch_mut(node2, op, oom2))

NextRepl ==
    \/ ReplIncrement
    \/ ReplProcessAdd
    \/ ReplFileOpen
    \/ ReplFileWrite

SpecRepl == Init /\ [][NextRepl]_vars

(***************************************************************************)
(* The file system run side by side with ModelFIO, as model_equivalence    *)
(* does: one process, one file, every open and write applied to both.      *)
(***************************************************************************)
EqPids == {1}
EqPath == "/a"
EqFlags == {O_RDWR \cup O_CREAT, O_RDWR \cup O_CREAT \cup O_APPEND}
UniformPayloads == {<<1>>, <<2, 2, 2>>}

ApplyEq(op, r, m) ==
    /\ node' = r.st
    /\ last' = [op |-> op, resp |-> r.resp]
    /\ nops' = nops + 1
    /\ mfs' = m
    /\ Record(op, node, r)
    /\ UNCHANGED <<node2, resp2, file, fdtable, fr, heap, vspace, gm, ptab, conc, tcp>>

EqProcessAdd ==
    /\ CanStep
    /\ \E pid \in EqPids :
          /\ ~node.process_map[pid].present
          /\ ApplyEq(OpProcessAdd(pid),
                     dispatch_mut(node, OpProcessAdd(pid), "none"), mfs)

EqOpen ==
    /\ CanStep
    /\ \E pid \in EqPids, flags \in EqFlags, modes \in ModeSet :
          LET op == OpFileOpen(pid, EqPath, flags, modes)
          IN  /\ node.process_map[pid].present
              /\ ApplyEq(op, dispatch_mut(node, op, "none"),
                         ModelFIO_open(mfs, EqPath, flags, modes).mfs)

EqWrite ==
    /\ CanStep
    /\ \E pid \in EqPids, fd \in FdIds, buf \in UniformPayloads,
          off \in Offsets :
          LET op == OpFileWrite(pid, fd, buf, off)
          IN  /\ node.process_map[pid].present
              /\ node.process_map[pid].fds[fd].used
              /\ ApplyEq(op, dispatch_mut(node, op, "none"),
                         ModelFIO_write_at(mfs, fd, buf, Len(buf), off).mfs)

NextEq ==
    \/ EqProcessAdd
    \/ EqOpen
    \/ EqWrite

SpecEq == Init /\ [][NextEq]_vars

(***************************************************************************)
(* The file system driven through its own interface (create, delete) next  *)
(* to the reducer's opens and writes, which hold the fds.                  *)
(***************************************************************************)
FsPaths == {"/", "/a"}
FsFlags == {O_RDWR, O_RDWR \cup O_CREAT}

\* MlnrFS::create applied to the node's file system: [st, resp].
MlnrFS_created(st, c) ==
    [st |-> [st EXCEPT !.fs = c.fs],
     resp |-> IF c.res = "Ok" THEN Ok("Created", c.val) ELSE Err(c.res)]

\* MlnrFS::delete applied to the node's file system: [st, resp].
MlnrFS_deleted(st, d) ==
    [st |-> [st EXCEPT !.fs = d.fs],
     resp |-> IF d.res = "Ok" THEN Ok("Deleted", d.val) ELSE Err(d.res)]

FsProcessAdd ==
    /\ CanStep
    /\ \E pid \in EqPids :
          /\ ~node.process_map[pid].present
          /\ Apply(OpProcessAdd(pid), "none",
                   dispatch_mut(node, OpProcessAdd(pid), "none"))

FsOpen ==
    /\ CanStep
    /\ node.fs.nextmemnode <= MaxMnode
    /\ \E pid \in EqPids, path \in FsPaths, flags \in FsFlags, modes \in ModeSet :
          LET op == OpFileOpen(pid, path, flags, modes)
          IN  /\ node.process_map[pid].present
              /\ Apply(op, "none", dispatch_mut(node, op, "none"))

FsWrite ==
    /\ CanStep
    /\ \E pid \in EqPids, fd \in FdIds, buf \in Payloads :
          LET op == OpFileWrite(pid, fd, buf, 0)
          IN  /\ node.process_map[pid].present
              /\ node.process_map[pid].fds[fd].used
              /\ Apply(op, "none", dispatch_mut(node, op, "none"))

FsCreate ==
    /\ CanStep
    /\ node.fs.nextmemnode <= MaxMnode
    /\ \E path \in FsPaths, modes \in ModeSet, oom \in {"none", "new"} :
          Apply(OpCreate(path, modes), oom,
                MlnrFS_created(node, create(node.fs, path, modes, oom)))

FsDelete ==
    /\ CanStep
    /\ \E path \in FsPaths :
          Apply(OpDelete(path), "none",
                MlnrFS_deleted(node, delete(node.fs, path)))

NextFs ==
    \/ FsProcessAdd
    \/ FsOpen
    \/ FsWrite
    \/ FsCreate
    \/ FsDelete

SpecFs == Init /\ [][NextFs]_vars

(***************************************************************************)
(* One file body under write_file and resize_file, as the unit tests of    *)
(* file.rs drive it.                                                       *)
(***************************************************************************)
Sizes == 0 .. (2 * BASE_PAGE_SIZE + 1)

ApplyFile(op, resp, mcache) ==
    /\ file' = mcache
    /\ last' = [op |-> op, resp |-> resp]
    /\ nops' = nops + 1
    /\ UNCHANGED <<node, node2, resp2, mfs, hist, fdtable, fr, heap, vspace, gm, ptab, conc, tcp>>

\* The Result<usize, FileSystemError> of write_file as a response.
Written(w) == IF w.res = "Ok" THEN Ok("Written", w.val) ELSE Err(w.res)

ApplyWrite(op, w) == ApplyFile(op, Written(w), w.mcache)

ApplyResize(op, rs) == ApplyFile(op, Ok("Resized", rs.ok), rs.mcache)

FileWriteFile ==
    /\ nops < MaxOps
    /\ \E buf \in Payloads, off \in Offsets, oom \in {"none", "resize", "write"} :
          \E len \in 0 .. Len(buf) :
              ApplyWrite(OpWriteFile(buf, len, off),
                         write_file(file, buf, len, off, oom))

FileResizeFile ==
    /\ nops < MaxOps
    /\ \E new_len \in Sizes, oom \in {"none", "resize"} :
          ApplyResize(OpResizeFile(new_len), resize_file(file, new_len, oom))

NextFile ==
    \/ FileWriteFile
    \/ FileResizeFile

SpecFile == Init /\ [][NextFile]_vars

(***************************************************************************)
(* One fd table under allocate_fd, update_fd, deallocate_fd and get_fd.    *)
(***************************************************************************)
FdIndexes == 0 .. MAX_FILES_PER_PROCESS

OpFd(type, fd) == [type |-> type, fd |-> fd]

ApplyFd(op, resp, table) ==
    /\ fdtable' = table
    /\ last' = [op |-> op, resp |-> resp]
    /\ nops' = nops + 1
    /\ UNCHANGED <<node, node2, resp2, mfs, hist, file, fr, heap, vspace, gm, ptab, conc, tcp>>

CanStepFd == nops < MaxOps /\ last.resp.tag # "Panic"

\* allocate_fd followed by the caller's update_fd on the new slot.
Allocated(a, mnode, flags) ==
    ApplyFd(OpFd("allocate_fd", 0),
            IF a.some THEN Ok("Fd", a.fd) ELSE Err("InternalError"),
            IF a.some
            THEN [a.fdesc EXCEPT !.fds[a.fd] = update_fd(@, mnode, flags)]
            ELSE a.fdesc)

FdAllocate ==
    /\ CanStepFd
    /\ \E mnode \in {0} \cup MnodeIds, flags \in {{}, O_RDWR} :
          Allocated(allocate_fd(fdtable), mnode, flags)

FdDeallocate ==
    /\ CanStepFd
    /\ \E fd \in FdIndexes :
          ApplyFd(OpFd("deallocate_fd", fd), deallocate_fd_result(fdtable, fd),
                  deallocate_fd(fdtable, fd))

FdGet ==
    /\ CanStepFd
    /\ \E fd \in FdIndexes :
          ApplyFd(OpFd("get_fd", fd), get_fd(fdtable, fd), fdtable)

NextFd ==
    \/ FdAllocate
    \/ FdDeallocate
    \/ FdGet

SpecFd == Init /\ [][NextFd]_vars

(***************************************************************************)
(* One frame under Frame::new, the two splits and its base-page iterator.  *)
(***************************************************************************)
FrameNew ==
    \E base \in FrameBases, size \in FrameSizes, affinity \in NodeIds :
        /\ fr' = FrameState(Frame_new(base, size, affinity))
        /\ UNCHANGED <<node, last, nops, node2, resp2, mfs, hist, file, fdtable,
                       heap, vspace, gm, ptab, conc, tcp>>

Split(op, k, parts) ==
    /\ fr' = [fr EXCEPT !.op = op, !.k = k, !.low = parts[1], !.high = parts[2]]
    /\ UNCHANGED <<node, last, nops, node2, resp2, mfs, hist, file, fdtable,
                   heap, vspace, gm, ptab, conc, tcp>>

FrameSplitAt == \E k \in SplitSizes : Split("split_at", k, split_at(fr.f, k))

FrameSplitAtLargePage ==
    Split("split_at_nearest_large_page_boundary", 0,
          split_at_nearest_large_page_boundary(fr.f))

Stepped(n) ==
    /\ fr' = [fr EXCEPT !.op = "next", !.it = n.frame,
                        !.out = IF n.some THEN Append(@, n.item) ELSE @,
                        !.nones = IF n.some THEN @ ELSE @ + 1]
    /\ UNCHANGED <<node, last, nops, node2, resp2, mfs, hist, file, fdtable,
                   heap, vspace, gm, ptab, conc, tcp>>

FrameIterNext ==
    /\ fr.nones < MaxNones
    /\ Stepped(IntoBasePageIter_next(fr.it))

NextFrame ==
    \/ FrameNew
    \/ FrameSplitAt
    \/ FrameSplitAtLargePage
    \/ FrameIterNext

SpecFrame == Init /\ [][NextFrame]_vars

(***************************************************************************)
(* The kernel heap: installing the KCB, then allocations.                  *)
(***************************************************************************)
ApplyHeap(op, resp, h) ==
    /\ heap' = h
    /\ last' = [op |-> op, resp |-> resp]
    /\ nops' = nops + 1
    /\ UNCHANGED <<node, node2, resp2, mfs, hist, file, fdtable, fr, vspace, gm, ptab, conc, tcp>>

CanStepHeap == nops < MaxOps /\ last.resp.tag # "Panic"

HeapInstallKcb ==
    /\ CanStepHeap
    /\ ~heap.kcb
    /\ \E b \in 0 .. MaxPages, l \in 0 .. MaxPages :
          ApplyHeap([type |-> "init_kcb", size |-> 0, align |-> 1], Ok("Unit", 0),
                    Kcb(b, l))

\* The block alloc returned, if any, is live until it is deallocated.
Alloced(layout, a) ==
    ApplyHeap([type |-> "alloc", size |-> layout.size, align |-> layout.align],
              a.resp,
              IF a.resp = NonNullPtr
              THEN [a.heap EXCEPT !.live[layout] = @ + 1]
              ELSE a.heap)

HeapAlloc ==
    /\ CanStepHeap
    /\ \E layout \in Layouts : Alloced(layout, alloc(heap, layout.size))

Dealloced(layout, d) ==
    ApplyHeap([type |-> "dealloc", size |-> layout.size, align |-> layout.align],
              d.resp,
              IF d.resp.tag = "Ok"
              THEN [d.heap EXCEPT !.live[layout] = @ - 1]
              ELSE d.heap)

\* dealloc of a block that alloc returned for the same layout.
HeapDealloc ==
    /\ CanStepHeap
    /\ \E layout \in Layouts :
          /\ heap.live[layout] > 0
          /\ Dealloced(layout, dealloc(heap, layout))

NextHeap ==
    \/ HeapInstallKcb
    \/ HeapAlloc
    \/ HeapDealloc

SpecHeap == Init /\ [][NextHeap]_vars

(***************************************************************************)
(* The unix VSpace under map_frame, resolve and unmap.                     *)
(***************************************************************************)
ApplyVSpace(op, resp, vs) ==
    /\ vspace' = vs
    /\ last' = [op |-> op, resp |-> resp]
    /\ nops' = nops + 1
    /\ UNCHANGED <<node, node2, resp2, mfs, hist, file, fdtable, fr, heap, gm, ptab, conc, tcp>>

CanStepVSpace == nops < MaxOps /\ last.resp.tag # "Panic"

Mapped(base, m) == ApplyVSpace([type |-> "map_frame", vaddr |-> base], m.resp, m.vspace)

VSpaceMapFrame ==
    /\ CanStepVSpace
    /\ \E base \in VBases, b \in FrameBases, size \in FrameSizes \ {0},
          a \in MapActions :
          Mapped(base, map_frame(vspace, base, Frame_new(b, size, 0), a))

VSpaceResolve ==
    /\ CanStepVSpace
    /\ \E vaddr \in VBases :
          ApplyVSpace([type |-> "resolve", vaddr |-> vaddr],
                      resolve(vspace, vaddr), vspace)

VSpaceUnmap ==
    /\ CanStepVSpace
    /\ \E vaddr \in VBases :
          ApplyVSpace([type |-> "unmap", vaddr |-> vaddr],
                      unmap(vspace, vaddr), vspace)

NextVSpace ==
    \/ VSpaceMapFrame
    \/ VSpaceResolve
    \/ VSpaceUnmap

SpecVSpace == Init /\ [][NextVSpace]_vars

(***************************************************************************)
(* GlobalMemory::new applied to an initial frame list.                     *)
(***************************************************************************)
GmNew ==
    /\ gm.status = "default"
    /\ \E memory \in Memories :
          /\ \A i, j \in 1 .. Len(memory) :
                i < j => memory[i].base + memory[i].size <= memory[j].base
          /\ gm' = GlobalMemory_new(memory)
    /\ UNCHANGED <<node, last, nops, node2, resp2, mfs, hist, file, fdtable,
                   fr, heap, vspace, ptab, conc, tcp>>

NextGm == GmNew

SpecGm == Init /\ [][NextGm]_vars

(***************************************************************************)
(* The x86-64 VSpace under map and resolve.                                *)
(***************************************************************************)
ApplyTables(op, resp, vs) ==
    /\ ptab' = vs
    /\ last' = [op |-> op, resp |-> resp]
    /\ nops' = nops + 1
    /\ UNCHANGED <<node, node2, resp2, mfs, hist, file, fdtable, fr, heap,
                   vspace, gm, conc, tcp>>

CanStepTables == nops < MaxTableOps /\ ~ptab.panicked

TablesMapped(base, size, vs) ==
    ApplyTables([type |-> "map", vaddr |-> base, size |-> size],
                IF vs.panicked THEN Panic("called Option::unwrap() on a None value")
                ELSE Ok("Unit", 0),
                vs)

TablesMap ==
    /\ CanStepTables
    /\ \E base \in VAddrs, size \in 0 .. MaxMapSize :
          TablesMapped(base, size, VSpace_map(ptab, base, size))

TablesResolve ==
    /\ CanStepTables
    /\ \E base \in VAddrs :
          ApplyTables([type |-> "resolve", vaddr |-> base, size |-> 0],
                      Ok("PAddr", VSpace_resolve(ptab, base)), ptab)

NextTables ==
    \/ TablesMap
    \/ TablesResolve

SpecTables == Init /\ [][NextTables]_vars

(***************************************************************************)
(* Threads that share one MlnrFS: every step of a call that takes a lock   *)
(* or touches a borrow flag is one action.                                 *)
(***************************************************************************)
OtherUnchangedShared ==
    UNCHANGED <<node, node2, resp2, mfs, hist, file, fdtable, fr, heap,
                vspace, gm, ptab, tcp>>

\* A thread enters a call: r is the call's first step.
Entered(t, op, r) ==
    /\ conc' = r.c
    /\ last' = IF r.resp = Pending THEN last ELSE [op |-> op, resp |-> r.resp]
    /\ nops' = nops + 1
    /\ OtherUnchangedShared

\* A thread inside a call takes its next step.
Continued(t, r) ==
    /\ conc' = r.c
    /\ last' = IF r.resp = Pending THEN last
               ELSE [op |-> [type |-> conc.arg[t].type, thread |-> t,
                             path |-> conc.arg[t].path,
                             mnode |-> conc.arg[t].mnode],
                     resp |-> r.resp]
    /\ nops' = nops
    /\ OtherUnchangedShared

CanEnter(t) ==
    /\ nops < MaxSharedOps
    /\ ~conc.panicked
    /\ conc.pc[t] = "idle"

At(t, pos) == ~conc.panicked /\ conc.pc[t] = pos

SharedLookup ==
    \E t \in Threads, path \in SharedPaths :
        /\ CanEnter(t)
        /\ conc.held[t] = 0
        /\ conc.files_writer = 0
        /\ Entered(t, [type |-> "lookup", thread |-> t, path |-> path,
                       mnode |-> 0],
                   lookup_clone(conc, t, path))

\* The Arc a thread got from lookup goes out of scope.
SharedDrop ==
    \E t \in Threads :
        /\ At(t, "idle")
        /\ conc.held[t] # 0
        /\ conc' = [conc EXCEPT !.held[t] = 0]
        /\ UNCHANGED <<last, nops, tcp>>
        /\ OtherUnchangedShared

SharedCreate ==
    \E t \in Threads, path \in SharedPaths :
        /\ CanEnter(t)
        /\ conc.nextmemnode <= MaxSharedMnode
        /\ conc.files_writer = 0
        /\ Entered(t, [type |-> "create", thread |-> t, path |-> path,
                       mnode |-> 0],
                   create_check(conc, t, path))

SharedAccess ==
    \E t \in Threads, type \in {"write", "read"}, mnode \in SharedMnodes :
        /\ CanEnter(t)
        /\ Entered(t, [type |-> type, thread |-> t, path |-> "/",
                       mnode |-> mnode],
                   access_begin(conc, t, type, mnode))

SharedBorrowCheck ==
    \E t \in Threads :
        /\ At(t, "borrow_check")
        /\ Continued(t, borrow_check(conc, t))

SharedBorrowSet ==
    \E t \in Threads :
        /\ At(t, "borrow_set")
        /\ Continued(t, borrow_set(conc, t))

SharedAccessEnd ==
    \E t \in Threads :
        /\ At(t, "in_node")
        /\ Continued(t, access_end(conc, t))

SharedDelete ==
    \E t \in Threads, path \in SharedPaths :
        /\ CanEnter(t)
        /\ conc.files_writer = 0
        /\ Entered(t, [type |-> "delete", thread |-> t, path |-> path,
                       mnode |-> 0],
                   delete_remove(conc, t, path))

SharedDeleteCount ==
    \E t \in Threads :
        /\ At(t, "delete_count")
        /\ Continued(t, delete_count(conc, t))

\* A thread that waits in write() gets the lock and runs the statement behind
\* it.
SharedWriteLocked ==
    \E t \in Threads :
        /\ ~conc.panicked
        /\ WriteLockWanted(conc.pc[t]) # "none"
        /\ WriteLockFree(conc, WriteLockWanted(conc.pc[t]))
        /\ Continued(t, write_locked(conc, t))

NextShared ==
    \/ SharedLookup
    \/ SharedDrop
    \/ SharedCreate
    \/ SharedAccess
    \/ SharedBorrowCheck
    \/ SharedBorrowSet
    \/ SharedAccessEnd
    \/ SharedDelete
    \/ SharedDeleteCount
    \/ SharedWriteLocked

SpecShared == Init /\ [][NextShared]_vars

(***************************************************************************)
(* A TCPClient under join_cluster and rpc_call; the peer answers every     *)
(* request with bytes of its choice.                                       *)
(***************************************************************************)
\* What the peer can answer: a header with any ids and length and a body, or
\* fewer bytes than a header has.
Responses ==
    {encode(RPCHeader(cid, 0, rid, "Response", mlen)) \o body :
        cid \in ClientIds, rid \in 0 .. MaxRespId, mlen \in 0 .. MaxBody,
        body \in Bodies}
    \cup {<<>>}

ApplyTcp(op, call, resp, c) ==
    /\ tcp' = [c EXCEPT !.returned = call,
                        !.succeeded = IF call.tag = "Ok" THEN @ + 1 ELSE @]
    /\ last' = [op |-> op, resp |-> resp]
    /\ nops' = nops + 1
    /\ UNCHANGED <<node, node2, resp2, mfs, hist, file, fdtable, fr, heap,
                   vspace, gm, ptab, conc>>

CanStepTcp == nops < MaxRpcOps /\ last.resp.tag # "Panic"

TcpJoined(op, j) == ApplyTcp(op, j.call, j.resp, j.c)

TcpJoinCluster ==
    /\ CanStepTcp
    /\ ~tcp.server_handle
    /\ \E res \in Responses :
          TcpJoined([type |-> "join_cluster", pid |-> 0,
                     rpc_id |-> "Registration", data |-> <<>>, res |-> res],
                    join_cluster(tcp, res))

TcpCalled(op, r) == ApplyTcp(op, r.resp, r.resp, r.c)

TcpRpcCall ==
    /\ CanStepTcp
    /\ \E rpc_id \in RPCTypes, data \in RequestData, res \in Responses :
          TcpCalled([type |-> "rpc_call", pid |-> 0, rpc_id |-> rpc_id,
                     data |-> data, res |-> res],
                    rpc_call(tcp, 0, rpc_id, data, res))

NextTcp ==
    \/ TcpJoinCluster
    \/ TcpRpcCall

SpecTcp == Init /\ [][NextTcp]_vars


(***************************************************************************)
(* Properties of the reducers.                                             *)
(***************************************************************************)
\* The slot an operation names, in a node state.
SlotOf(st, op) == st.process_map[op.pid].fds[op.fd]

OpenFd(st, op) == st.process_map[op.pid].present /\ SlotOf(st, op).used

\* The content of a file as a flat byte array.
Content(st, m) == Flatten(st.fs.mnodes[m].mcache)

C4_FileWriteEffectiveOffset ==
    [][(last'.op.type = "FileWrite" /\ last'.resp.tag = "Ok") =>
         LET op == last'.op
             slot == SlotOf(node, op)
             old == Content(node, slot.mnode)
             new == Content(node', slot.mnode)
             n == Len(op.buf)
             e == IF op.off # -1 THEN op.off
                  ELSE IF "APPEND" \in slot.flags THEN Len(old)
                  ELSE slot.offset
         IN  /\ "WRITE" \in slot.flags
             /\ last'.resp = Ok("FileAccessed", n)
             /\ Len(new) >= e + n
             /\ \A i \in 1 .. n : new[e + i] = op.buf[i]
             /\ \A i \in 1 .. e : new[i] = IF i <= Len(old) THEN old[i] ELSE 0
             /\ SlotOf(node', op).offset = IF op.off = -1 THEN e + n
                                           ELSE slot.offset]_vars

\* An offset-less write through an APPEND fd landed at the end of a file
\* whose size differed from the fd's stored offset.
C4_Witness ==
    /\ last.op.type = "FileWrite"
    /\ last.op.off = -1
    /\ last.resp.tag = "Ok"
    /\ OpenFd(node, last.op)
    /\ is_append(SlotOf(node, last.op).flags)
    /\ SlotOf(node, last.op).offset > Len(last.op.buf)
    /\ SlotOf(node, last.op).offset =
           Len(Content(node, SlotOf(node, last.op).mnode))

\* C5: FileWrite on an open fd whose flags lack WRITE returns
\* PermissionError and leaves the file system (sizes and contents) and the
\* fd tables (offsets) as they were.
C5_WriteWithoutWriteFlag ==
    [][(/\ last'.op.type = "FileWrite"
        /\ OpenFd(node, last'.op)
        /\ "WRITE" \notin SlotOf(node, last'.op).flags) =>
         /\ last'.resp = Err("PermissionError")
         /\ node'.fs = node.fs
         /\ node'.process_map = node.process_map]_vars

\* A FileWrite was refused on an fd opened without WRITE.
C5_Witness ==
    /\ last.op.type = "FileWrite"
    /\ last.resp = Err("PermissionError")
    /\ OpenFd(node, last.op)
    /\ SlotOf(node, last.op).flags = O_RDONLY \cup O_CREAT
    /\ node.fs.mnodes[SlotOf(node, last.op).mnode].node_type = "File"

\* C6: a read on an open fd whose flags lack READ fails with a permission
\* error (and copies nothing, and leaves the offset alone).
C6_ReadWithoutReadFlag ==
    (/\ last.op.type = "FileRead"
     /\ OpenFd(node, last.op)
     /\ "READ" \notin SlotOf(node, last.op).flags) =>
        last.resp = Err("PermissionError")

\* C7: FileOpen of an unbound path without CREATE returns PermissionError;
\* no fd is allocated, no mnode is created, and next_mnode, the path map
\* and the fd tables are unchanged.
C7_OpenMissingWithoutCreate ==
    [][(/\ last'.op.type = "FileOpen"
        /\ node.fs.files[last'.op.path] = NoMnode
        /\ "CREATE" \notin last'.op.flags) =>
         /\ last'.resp = Err("PermissionError")
         /\ node'.fs = node.fs
         /\ node'.process_map = node.process_map]_vars

\* Such an open was refused for a registered process with a free fd slot.
C7_Witness ==
    /\ last.op.type = "FileOpen"
    /\ last.resp = Err("PermissionError")
    /\ node.fs.files[last.op.path] = NoMnode
    /\ ~is_create(last.op.flags)
    /\ node.process_map[last.op.pid].present
    /\ FreeFds(node.process_map[last.op.pid]) # {}

\* C8: whenever FileOpen returns an error, the fd table of the process is
\* the one it had before the op.
C8_OpenRollback ==
    [][(last'.op.type = "FileOpen" /\ last'.resp.tag = "Err") =>
         node'.process_map = node.process_map]_vars

\* A FileOpen failed in file creation, after its fd had been allocated.
C8_Witness ==
    /\ last.op.type = "FileOpen"
    /\ last.resp = Err("OutOfMemory")
    /\ node.process_map[last.op.pid].present
    /\ FreeFds(node.process_map[last.op.pid]) # {}
    /\ node.fs.nextmemnode > 2

\* What a creating FileOpen must establish.
OpenCreated(st, st1, op, resp) ==
    /\ resp.tag = "Ok"
    /\ resp.kind = "FileOpened"
    /\ resp.val \in FreeFds(st.process_map[op.pid])
    /\ LET m == st1.fs.files[op.path]
           slot == st1.process_map[op.pid].fds[resp.val]
       IN  /\ m \in MnodeIds
           /\ ~st.fs.mnodes[m].present
           /\ st1.fs.mnodes[m].present
           /\ st1.fs.mnodes[m].node_type = "File"
           /\ get_file_size(st1.fs.mnodes[m]) = 0
           /\ slot.used
           /\ slot.mnode = m
           /\ slot.flags = op.flags

CreatingOpen(st, op) ==
    /\ op.type = "FileOpen"
    /\ "CREATE" \in op.flags
    /\ st.fs.files[op.path] = NoMnode
    /\ st.process_map[op.pid].present
    /\ FreeFds(st.process_map[op.pid]) # {}

C10_OpenTruncates ==
    [][(/\ last'.op.type = "FileOpen"
        /\ "TRUNCATE" \in last'.op.flags
        /\ node.fs.files[last'.op.path] # NoMnode
        /\ node.process_map[last'.op.pid].present
        /\ FreeFds(node.process_map[last'.op.pid]) # {}) =>
         LET op == last'.op
             m == node.fs.files[op.path]
         IN  /\ last'.resp.tag = "Ok"
             /\ last'.resp.kind = "FileOpened"
             /\ last'.resp.val \in FreeFds(node.process_map[op.pid])
             /\ get_file_size(node'.fs.mnodes[m]) = 0
             /\ node'.process_map[op.pid].fds[last'.resp.val].mnode = m]_vars


\* C1: two fresh replicas that apply the same sequence of write-ops give
\* the same response to every op and end in the same observable state
\* (path map, mnodes, file contents, fd tables with offsets, counters).
C1_ReplicasAgree ==
    /\ resp2 = last.resp
    /\ node2.counters = node.counters
    /\ node2.process_map = node.process_map
    /\ node2.fs = node.fs

\* The largest read the tests issue against a file.
WholeFile == 128

\* C3: after any sequence of successful writes to a file, its size is the
\* largest end offset of the writes and a read of the whole file returns,
\* at every position, the byte of the latest write covering it (0 where no
\* write did): the results ModelFIO gives.
C3_MatchesModelFIO ==
    \A pid \in EqPids, fd \in FdIds :
        (/\ node.process_map[pid].present
         /\ node.process_map[pid].fds[fd].used
         /\ mfs.fds.fds[fd].used) =>
            LET m == node.process_map[pid].fds[fd].mnode
                mcache == node.fs.mnodes[m].mcache
                r == ModelFIO_read_at(mfs, fd, WholeFile, 0)
            IN  /\ get_size(mcache) = file_size(mfs.oplog, m)
                /\ r.res = "Ok"
                /\ r.val = get_size(mcache)
                /\ r.bytes = read_file(mcache, 0, get_size(mcache))

\* C11: ProcessAdd(pid) for an unregistered pid inserts an empty fd table
\* and returns ProcessAdded(pid); for a registered pid it returns
\* ProcessError::NotEnoughMemory and leaves the process's fd table (every
\* allocated slot with its mnode, flags and offset) unchanged.
C11_ProcessAdd ==
    [][last'.op.type = "ProcessAdd" =>
         LET pid == last'.op.pid
         IN  IF ~node.process_map[pid].present
             THEN /\ last'.resp = Ok("ProcessAdded", pid)
                  /\ node'.process_map[pid] = FileDesc_default
             ELSE /\ last'.resp = Err("ProcessError::NotEnoughMemory")
                  /\ node'.process_map[pid] = node.process_map[pid]]_vars

\* C12: a write-op naming an unregistered pid, or an fd that is not open in
\* its process, returns an error value (no panic) and leaves the replicated
\* state unchanged.
C12_UnknownPidOrFd ==
    [][(/\ last'.op.type \in {"FileOpen", "FileWrite"}
        /\ \/ ~node.process_map[last'.op.pid].present
           \/ /\ last'.op.type = "FileWrite"
              /\ ~SlotOf(node, last'.op).used) =>
         /\ last'.resp.tag = "Err"
         /\ node' = node]_vars

(***************************************************************************)
(* Properties of the file system.                                          *)
(***************************************************************************)
\* Some process holds an open fd bound to mnode m.
HeldOpen(st, m) ==
    \E pid \in Pids, fd \in FdIds :
        /\ st.process_map[pid].present
        /\ st.process_map[pid].fds[fd].used
        /\ st.process_map[pid].fds[fd].mnode = m

\* C13: delete(path) while some process holds an open fd bound to the mnode
\* of path fails with PermissionError; the path stays bound to the same
\* mnode and the file's content is unchanged.
C13_DeleteWhileOpen ==
    [][(/\ last'.op.type = "MlnrFS::delete"
        /\ node.fs.files[last'.op.path] # NoMnode
        /\ HeldOpen(node, node.fs.files[last'.op.path])) =>
         LET m == node.fs.files[last'.op.path]
         IN  /\ last'.resp.tag = "Err"
             /\ last'.resp.kind = "PermissionError"
             /\ node'.fs.files[last'.op.path] = m
             /\ node'.fs.mnodes[m] = node.fs.mnodes[m]]_vars

\* C14: delete(path) on a bound path that no fd references returns true;
\* afterwards lookup(path) finds nothing, the mnode is gone from the mnode
\* map and an open of path without CREATE fails.  delete(path) on an unbound
\* path returns InvalidFile and changes neither map.
C14_Delete ==
    [][last'.op.type = "MlnrFS::delete" =>
         LET path == last'.op.path
             m == node.fs.files[path]
         IN  IF m = NoMnode
             THEN /\ last'.resp.tag = "Err"
                  /\ last'.resp.kind = "InvalidFile"
                  /\ node'.fs = node.fs
             ELSE ~HeldOpen(node, m) =>
                  /\ last'.resp.tag = "Ok"
                  /\ last'.resp.kind = "Deleted"
                  /\ last'.resp.val = TRUE
                  /\ lookup(node'.fs, path) = NoMnode
                  /\ ~node'.fs.mnodes[m].present
                  /\ \A pid \in Pids, flags \in {O_RDONLY, O_WRONLY, O_RDWR} :
                        FileOpen(node', pid, path, flags, S_IRWXU, "none").resp.tag
                            = "Err"]_vars

\* A file made by create was deleted while no fd referenced it.
C14_Witness ==
    /\ last.op.type = "MlnrFS::delete"
    /\ last.op.path = "/a"
    /\ last.resp.tag = "Ok"
    /\ hist.created = <<2>>
    /\ ~node.fs.mnodes[2].present
    /\ node.fs.files["/a"] = NoMnode
    /\ ~HeldOpen(node, 2)

StrictlyIncreasing(seq) ==
    \A i \in 1 .. Len(seq), j \in 1 .. Len(seq) : i < j => seq[i] < seq[j]

\* Mnode 1 is the root directory and nothing else.
RootOnly(fs) ==
    /\ fs.mnodes[1].present =>
          fs.mnodes[1].node_type = "Directory" /\ fs.mnodes[1].name = "/"
    /\ \A p \in Paths : fs.files[p] = 1 => p = "/"

\* C15 as stated: over any sequence of creates and deletes the first
\* successful create returns mnode 2, every later one an mnode strictly
\* greater than all returned before, and mnode 1 is only the root directory.
C15_MnodesNeverReused_Original ==
    /\ StrictlyIncreasing(hist.created)
    /\ hist.created # <<>> => hist.created[1] = 2
    /\ RootOnly(node.fs)

\* C15, amended: every successful create returns an mnode that is at least 2
\* and strictly greater than all returned before (a create that fails with
\* OutOfMemory uses up a number), and mnode 1 is only the root directory.
C15_MnodesNeverReused ==
    /\ StrictlyIncreasing(hist.created)
    /\ \A i \in 1 .. Len(hist.created) :
          2 <= hist.created[i] /\ hist.created[i] < node.fs.nextmemnode
    /\ RootOnly(node.fs)

\* A path was created, deleted and created again.
C15_Witness ==
    /\ hist.created = <<2, 3>>
    /\ last.op.type \in {"FileOpen", "MlnrFS::create"}
    /\ node.fs.files[last.op.path] = 3
    /\ ~node.fs.mnodes[2].present

C17_FileInfo ==
    (/\ last.op.type = "FileInfo"
     /\ node.fs.files[last.op.path] # NoMnode) =>
        LET mn == node.fs.mnodes[node.fs.files[last.op.path]]
        IN  /\ last.resp.tag = "Ok"
            /\ last.resp.kind = "FileInfo"
            /\ last.resp.val =
                   IF mn.node_type = "File"
                   THEN [fsize |-> get_file_size(mn), ftype |-> 2]
                   ELSE [fsize |-> 0, ftype |-> 1]

\* C18: Increment(tid) returns Incremented(v) with v the value of
\* counters[tid] before the op, makes counters[tid] = v + 1 and leaves every
\* other counter, the process map and the file system unchanged; Get returns
\* the current value of counters[0], the number of Increment(0) ops applied.
C18_IncrementAndGet ==
    [][/\ last'.op.type = "Increment" =>
            /\ last'.resp = Ok("Incremented", node.counters[last'.op.tid])
            /\ node'.counters =
                   [node.counters EXCEPT ![last'.op.tid] = @ + 1]
            /\ node'.process_map = node.process_map
            /\ node'.fs = node.fs
       /\ last'.op.type = "Get" =>
            /\ last'.resp.tag = "Ok"
            /\ last'.resp.val = node'.counters[0]
            /\ last'.resp.val = hist'.inc0
            /\ node' = node]_vars

\* Get answered 2 after two Increment(0) and one Increment(1).
C18_Witness ==
    /\ last.op.type = "Get"
    /\ last.resp.val = 2
    /\ hist.inc0 = 2
    /\ node.counters[1] = 1

(***************************************************************************)
(* Properties of the file body.                                            *)
(***************************************************************************)
\* What a read of the whole file returns.
Bytes(mcache) == read_file(mcache, 0, get_size(mcache))

\* The file after write_file(src, len, -1): the old bytes, then src[0..len].
Appended(old, new, op) ==
    /\ Len(new) = Len(old) + op.len
    /\ \A i \in 1 .. Len(old) : new[i] = old[i]
    /\ \A i \in 1 .. op.len : new[Len(old) + i] = op.buf[i]

\* C19 as stated: write_file(src, len, -1) on a file of size L returns len;
\* afterwards the size is L + len, bytes [0, L) are unchanged and bytes
\* [L, L + len) equal src[0..len].
C19_Append_Original ==
    [][(last'.op.type = "write_file" /\ last'.op.off = -1) =>
         /\ last'.resp.tag = "Ok"
         /\ last'.resp.val = last'.op.len
         /\ get_size(file') = get_size(file) + last'.op.len
         /\ Appended(Bytes(file), Bytes(file'), last'.op)]_vars

\* C19, amended: the same when no buffer allocation fails; when one fails
\* write_file returns OutOfMemory and the file is as before.
C19_Append ==
    [][(last'.op.type = "write_file" /\ last'.op.off = -1) =>
         IF last'.resp.tag = "Ok"
         THEN /\ last'.resp.val = last'.op.len
              /\ get_size(file') = get_size(file) + last'.op.len
              /\ Appended(Bytes(file), Bytes(file'), last'.op)
         ELSE /\ last'.resp = Err("OutOfMemory")
              /\ file' = file]_vars

\* Two offset-less writes, the second across a buffer boundary, read back
\* one after the other.
C19_Witness ==
    /\ last.op.type = "write_file"
    /\ last.op.off = -1
    /\ last.resp.tag = "Ok"
    /\ nops = 2
    /\ Bytes(file) = <<2, 1, 2, 2, 1, 2>>

\* The file after write_file(src, len, off) with an explicit offset.
WrittenAt(old, new, op) ==
    /\ Len(new) = op.off + op.len
    /\ \A i \in 1 .. Min(op.off, Len(old)) : new[i] = old[i]
    /\ \A i \in (Len(old) + 1) .. op.off : new[i] = 0
    /\ \A i \in 1 .. op.len : new[op.off + i] = op.buf[i]

Resized(old, new, n) ==
    /\ Len(new) = n
    /\ \A i \in 1 .. Min(Len(old), n) : new[i] = old[i]
    /\ \A i \in (Len(old) + 1) .. n : new[i] = 0

\* C21: resize_file(n) on a file of size L returns true when allocation
\* succeeds; afterwards the size is n, bytes [0, min(L, n)) are unchanged
\* and bytes [L, n) read as 0, over any sequence of growing and shrinking
\* resizes, across buffer boundaries and for n = 0.
C21_ResizeFile ==
    [][last'.op.type = "resize_file" =>
         /\ resize_file(file, last'.op.len, "none").ok
         /\ last'.resp.val = TRUE =>
               /\ get_size(file') = last'.op.len
               /\ Resized(Bytes(file), Bytes(file'), last'.op.len)]_vars

\* A file grown over a buffer boundary, written to, was shrunk into the
\* middle of a buffer.
C21_Witness ==
    /\ last.op.type = "resize_file"
    /\ last.resp.val = TRUE
    /\ last.op.len = BASE_PAGE_SIZE + 1
    /\ nops = 3
    /\ Len(file) = 2
    /\ \E i \in 1 .. Len(Bytes(file)) : Bytes(file)[i] # 0

\* C22: after any sequence of resize_file and write_file calls every buffer
\* but the last holds exactly BASE_PAGE_SIZE bytes, the last one between 1
\* and BASE_PAGE_SIZE, the number of buffers is ceil(size / BASE_PAGE_SIZE),
\* and size 0 means an empty buffer list.
C22_BufferInvariant ==
    /\ \A i \in 1 .. (Len(file) - 1) : Len(file[i]) = BASE_PAGE_SIZE
    /\ Len(file) > 0 =>
          Len(file[Len(file)]) \in 1 .. BASE_PAGE_SIZE
    /\ Len(file) = ceil(get_size(file), BASE_PAGE_SIZE)
    /\ get_size(file) = 0 => file = <<>>

\* A write at an explicit offset left three buffers, the last one short.
C22_Witness ==
    /\ last.op.type = "write_file"
    /\ last.op.off > 0
    /\ last.resp.tag = "Ok"
    /\ Len(file) = 3
    /\ Len(file[3]) < BASE_PAGE_SIZE

\* C23 as stated: for every file state and every n, resize_file(n) twice in
\* a row gives the state and the result of resize_file(n) once.
C23_ResizeIdempotent_Original ==
    \A n \in Sizes, oom1 \in {"none", "resize"}, oom2 \in {"none", "resize"} :
        resize_file(resize_file(file, n, oom1).mcache, n, oom2)
            = resize_file(file, n, oom1)

\* C23, amended: the same, except when the first call fails for lack of
\* memory and the second call then succeeds.
C23_ResizeIdempotent ==
    \A n \in Sizes, oom1 \in {"none", "resize"}, oom2 \in {"none", "resize"} :
        (resize_file(file, n, oom1).ok
             \/ ~resize_file(resize_file(file, n, oom1).mcache, n, oom2).ok) =>
            resize_file(resize_file(file, n, oom1).mcache, n, oom2)
                = resize_file(file, n, oom1)

\* A resize that padded the last buffer and then failed has been applied to
\* a file with content.
C23_Witness ==
    /\ last.op.type = "resize_file"
    /\ last.resp.val = FALSE
    /\ Len(file) > 0
    /\ last.op.len > get_size(file)
    /\ \E i \in 1 .. Len(Bytes(file)) : Bytes(file)[i] # 0

(***************************************************************************)
(* Properties of the fd table.                                             *)
(***************************************************************************)
\* C24: allocate_fd returns the lowest index whose slot is empty, occupies
\* exactly that slot and leaves every other slot unchanged; it fails with
\* InternalError only when all MAX_FILES_PER_PROCESS slots are occupied.
\* Hence an fd handed out is never one that is still open.
C24_AllocateFd ==
    [][last'.op.type = "allocate_fd" =>
         IF FreeFds(fdtable) = {}
         THEN last'.resp = Err("InternalError") /\ fdtable' = fdtable
         ELSE /\ last'.resp.tag = "Ok"
              /\ last'.resp.val \in FreeFds(fdtable)
              /\ \A i \in FreeFds(fdtable) : last'.resp.val <= i
              /\ fdtable'.fds[last'.resp.val].used
              /\ \A i \in FdIds \ {last'.resp.val} :
                    fdtable'.fds[i] = fdtable.fds[i]]_vars

\* A freed low slot was handed out again while a higher fd was still open.
C24_Witness ==
    /\ last.op.type = "allocate_fd"
    /\ last.resp = Ok("Fd", 0)
    /\ nops = 4
    /\ fdtable.fds[1].used
    /\ fdtable.fds[1].mnode # fdtable.fds[0].mnode

\* C25: deallocate_fd(fd) and get_fd(fd) return InternalError, without
\* panicking and with the table unchanged, whenever fd is not allocated (the
\* slot is empty or fd >= MAX_FILES_PER_PROCESS); for an allocated fd,
\* deallocate_fd empties exactly that slot and returns fd.
C25_DeallocateAndGet ==
    [][last'.op.type \in {"deallocate_fd", "get_fd"} =>
         LET fd == last'.op.fd
         IN  IF ~(fd \in FdIds /\ fdtable.fds[fd].used)
             THEN last'.resp = Err("InternalError") /\ fdtable' = fdtable
             ELSE last'.op.type = "deallocate_fd" =>
                  /\ last'.resp = Ok("Fd", fd)
                  /\ fdtable' = [fdtable EXCEPT !.fds[fd] = NoFd]]_vars

(***************************************************************************)
(* Properties of frames.                                                   *)
(***************************************************************************)
\* C26: f.into_iter() yields exactly f.size / BASE_PAGE_SIZE frames, each of
\* size BASE_PAGE_SIZE and with f's affinity, the i-th (from 0) at base
\* f.base + i * BASE_PAGE_SIZE; after the last one every further call returns
\* None, and a frame of size 0 yields nothing.
C26_BasePageIter ==
    /\ Len(fr.out) <= fr.f.size \div BASE_PAGE_SIZE
    /\ \A i \in 1 .. Len(fr.out) :
          fr.out[i] = Frame_new(fr.f.base + (i - 1) * BASE_PAGE_SIZE,
                                BASE_PAGE_SIZE, fr.f.affinity)
    /\ fr.nones > 0 => Len(fr.out) = fr.f.size \div BASE_PAGE_SIZE

\* A frame of three pages, not at address 0, was iterated to the end and
\* the iterator then returned None twice.
C26_Witness ==
    /\ fr.nones = 2
    /\ Len(fr.out) = 3
    /\ fr.f.base # 0
    /\ fr.f.affinity = 1

\* C27: for k a multiple of the base-page size, f.split_at(k) = (low, high)
\* has low.size + high.size = f.size and low.base = f.base; if k < f.size
\* then low.size = k, high.base = f.base + k and both parts have f's
\* affinity; if k >= f.size the result is (f, empty).
C27_SplitAt ==
    fr.op = "split_at" =>
        /\ fr.low.size + fr.high.size = fr.f.size
        /\ fr.low.base = fr.f.base
        /\ fr.k < fr.f.size =>
              /\ fr.low.size = fr.k
              /\ fr.high.base = fr.f.base + fr.k
              /\ fr.low.affinity = fr.f.affinity
              /\ fr.high.affinity = fr.f.affinity
        /\ fr.k >= fr.f.size => fr.low = fr.f /\ fr.high = Frame_empty

\* A frame on node 1 was split strictly inside, after its first page.
C27_Witness ==
    /\ fr.op = "split_at"
    /\ fr.k > 0
    /\ fr.k + BASE_PAGE_SIZE < fr.f.size
    /\ fr.f.base # 0
    /\ fr.f.affinity = 1

\* The first large-page boundary at or above an address.
Boundary(base) ==
    CHOOSE b \in base .. (base + LARGE_PAGE_SIZE) :
        /\ b % LARGE_PAGE_SIZE = 0
        /\ \A c \in base .. (b - 1) : c % LARGE_PAGE_SIZE # 0

\* C28: f.split_at_nearest_large_page_boundary() = (low, high) where
\* high.base is f.base or a multiple of LARGE_PAGE_SIZE: (empty, f) if f.base
\* is large-page aligned; low ending and high starting at the next boundary
\* if that lies inside f; (f, empty) if f ends at or before it; and always
\* low.size + high.size = f.size.
C28_SplitAtLargePage ==
    fr.op = "split_at_nearest_large_page_boundary" =>
        /\ fr.high.base = fr.f.base \/ fr.high.base % LARGE_PAGE_SIZE = 0
        /\ fr.low.size + fr.high.size = fr.f.size
        /\ IF fr.f.base % LARGE_PAGE_SIZE = 0
           THEN fr.low = Frame_empty /\ fr.high = fr.f
           ELSE IF Boundary(fr.f.base) < fr.f.base + fr.f.size
           THEN /\ fr.low = Frame_new(fr.f.base, Boundary(fr.f.base) - fr.f.base,
                                      fr.f.affinity)
                /\ fr.high = Frame_new(Boundary(fr.f.base),
                                       fr.f.base + fr.f.size - Boundary(fr.f.base),
                                       fr.f.affinity)
           ELSE fr.low = fr.f /\ fr.high = Frame_empty

\* A frame that straddles a large-page boundary was split there.
C28_Witness ==
    /\ fr.op = "split_at_nearest_large_page_boundary"
    /\ fr.low.size > 0
    /\ fr.high.size > BASE_PAGE_SIZE
    /\ fr.high.base > LARGE_PAGE_SIZE - 1
    /\ fr.f.affinity = 1

(***************************************************************************)
(* Properties of the kernel heap and of the VSpace.                        *)
(***************************************************************************)
\* C29: alloc never panics on failure: it returns a null pointer when no KCB
\* is installed, and a null pointer when the physical memory manager has no
\* page of the kind the allocation needs, on the direct page path and on the
\* path that refills the zone allocator.
C29_AllocFailsWithNull ==
    [][last'.op.type = "alloc" =>
         LET size == last'.op.size
             zone == size <= MAX_ALLOC_SIZE /\ size # BASE_PAGE_SIZE
         IN  /\ ~heap.kcb => last'.resp = NullPtr
             /\ ( /\ heap.kcb
                  /\ size <= LARGE_PAGE_SIZE
                  /\ zone => heap.zone[PageKind(size)] = 0
                  /\ heap.pages[PageKind(size)] = 0 )
                => last'.resp = NullPtr]_vars

C36_FailedWritesAtomic ==
    [][( \/ last'.op.type = "resize_file" /\ last'.resp.val = FALSE
         \/ last'.op.type = "write_file" /\ last'.resp = Err("OutOfMemory") )
       => /\ get_size(file') = get_size(file)
          /\ Bytes(file') = Bytes(file)]_vars

\* C39: the root directory is permanent: in every state reachable through
\* create and delete the path "/" is bound to mnode 1 and mnode 1 is a
\* Directory in the mnode map.
C39_RootPermanent ==
    /\ node.fs.files["/"] = 1
    /\ node.fs.mnodes[1].present
    /\ node.fs.mnodes[1].node_type = "Directory"

(***************************************************************************)
(* Deallocation and borrows of the kernel heap.                            *)
(***************************************************************************)
\* C32: every block that alloc(layout) returned non-null can be passed to
\* dealloc(ptr, layout) without a panic, and dealloc returns it to the tier
\* it came from: the slab zone when size <= MAX_ALLOC_SIZE and
\* size # BASE_PAGE_SIZE, the base pages when size = BASE_PAGE_SIZE, the
\* large pages when MAX_ALLOC_SIZE < size <= LARGE_PAGE_SIZE.
C32_DeallocMirrorsAlloc ==
    [][last'.op.type = "dealloc" =>
         LET size == last'.op.size
         IN  /\ last'.resp.tag = "Ok"
             /\ IF size <= MAX_ALLOC_SIZE /\ size # BASE_PAGE_SIZE
                THEN /\ heap'.zone[PageKind(size)] = heap.zone[PageKind(size)] + 1
                     /\ heap'.pages = heap.pages
                ELSE /\ heap'.pages[PageKind(size)] = heap.pages[PageKind(size)] + 1
                     /\ heap'.zone = heap.zone]_vars

\* C33: on the slab-refill path the zone allocator is not borrowed while the
\* physical memory manager is asked for a page: between a borrow of the zone
\* and its drop there is no page allocation.
C33_ZoneNotHeldAcrossRefill ==
    \A i \in 1 .. Len(heap.calls) :
        heap.calls[i] = "pm.allocate_page" =>
            \A j \in 1 .. (i - 1) :
                heap.calls[j] = "zone.borrow_mut" =>
                    \E k \in (j + 1) .. (i - 1) : heap.calls[k] = "zone.drop"

(***************************************************************************)
(* Early memory.                                                           *)
(***************************************************************************)
\* Every node of the initial frame list owns a frame larger than EMEM_SIZE.
EachNodeOwnsEmem(memory) ==
    \A n \in 0 .. (max_affinity(memory) - 1) :
        \E i \in 1 .. Len(memory) :
            memory[i].affinity = n /\ memory[i].size > EMEM_SIZE

\* C34: for every initial frame list in which each node owns a frame larger
\* than EMEM_SIZE, GlobalMemory::new creates exactly one early TCache per
\* node, each on a frame that starts on a large-page boundary and has size
\* exactly EMEM_SIZE.
C34_EarlyMemory ==
    (gm.status # "default" /\ EachNodeOwnsEmem(gm.memory)) =>
        /\ gm.status = "ok"
        /\ Len(gm.emem) = max_affinity(gm.memory)
        /\ \A n \in 1 .. Len(gm.emem) :
              /\ gm.emem[n].base % LARGE_PAGE_SIZE = 0
              /\ gm.emem[n].size = EMEM_SIZE
              /\ gm.emem[n].affinity = n - 1

(***************************************************************************)
(* Properties of the x86-64 VSpace.                                        *)
(***************************************************************************)
\* C31: mapping a range in which at least one base page is already mapped
\* fails with AlreadyMapped and changes no translation; every page has at
\* most one translation.
C31_AlreadyMapped ==
    [][(/\ last'.op.type = "map"
        /\ \E v \in last'.op.vaddr .. (last'.op.vaddr + last'.op.size - 1) :
              VSpace_resolve(ptab, v) # 0)
       => /\ last'.resp = Err("AlreadyMapped")
          /\ ptab' = ptab]_vars

\* C35: after map(base, size) returns, resolve(v) is Some for every address
\* v in [base, base + size), also when base is not page-aligned, when size is
\* not a multiple of the page size and when the range crosses a PT, PD or
\* PDPT boundary.
C35_MapThenResolve ==
    [][(last'.op.type = "map" /\ last'.resp.tag = "Ok") =>
         \A v \in last'.op.vaddr .. (last'.op.vaddr + last'.op.size - 1) :
             VSpace_resolve(ptab', v) # 0]_vars

(***************************************************************************)
(* Properties of an MlnrFS shared by several threads.                      *)
(***************************************************************************)
\* C37: every call to MlnrFS::delete returns: in no path, in particular not
\* in the PermissionError path that re-inserts the binding, does a thread
\* wait for the write lock of the path map while it holds that lock itself.
C37_DeleteReturns ==
    \A t \in Threads :
        ~(/\ WriteLockWanted(conc.pc[t]) = "files"
          /\ conc.files_writer = t)

\* C38: accesses to one file body are mutually exclusive: no two threads are
\* inside the same MemNode at once unless both only read it.
C38_ExclusiveAccess ==
    \A t1, t2 \in Threads :
        (/\ t1 # t2
         /\ conc.pc[t1] = "in_node"
         /\ conc.pc[t2] = "in_node"
         /\ conc.arg[t1].mnode = conc.arg[t2].mnode)
        => (conc.arg[t1].type = "read" /\ conc.arg[t2].type = "read")

(***************************************************************************)
(* Properties of TCPClient::rpc_call.                                      *)
(***************************************************************************)
\* A step in which rpc_call put a request on the wire and got an answer.
RpcStep ==
    /\ nops' = nops + 1
    /\ last'.op.type \in {"rpc_call", "join_cluster"}
    /\ tcp'.server_handle

\* C40: the request of a call carries the number of calls that succeeded
\* before it as req_id; the call returns Ok only if the response header's
\* req_id equals the request's, its client_id equals the client's id (not
\* required for Registration) and its msg_len equals the length of the body
\* received; req_id grows by exactly 1 on success and stays as it is when
\* MalformedResponse is returned; after a successful Registration the
\* client's id is the id of the response header.
C40_RpcMatching ==
    [][RpcStep =>
         /\ decode(tcp'.sent).hdr.req_id = tcp.succeeded
         /\ decode(tcp'.sent).hdr.req_id = tcp.req_id
         /\ tcp'.returned.tag = "Ok" =>
               /\ decode(last'.op.res).some
               /\ decode(last'.op.res).hdr.req_id = decode(tcp'.sent).hdr.req_id
               /\ \/ decode(last'.op.res).hdr.client_id = tcp.client_id
                  \/ last'.op.rpc_id = "Registration"
               /\ decode(last'.op.res).hdr.msg_len
                     = Len(decode(last'.op.res).body)
               /\ tcp'.req_id = tcp.req_id + 1
               /\ last'.op.rpc_id = "Registration" =>
                     tcp'.client_id = decode(last'.op.res).hdr.client_id
         /\ (tcp'.returned.tag = "Err"
               /\ tcp'.returned.kind = "MalformedResponse") =>
               /\ tcp'.req_id = tcp.req_id
               /\ tcp'.client_id = tcp.client_id]_vars

\* Two calls have succeeded, the first a Registration that gave the client a
\* new id, and a third has returned MalformedResponse.
C40_Witness ==
    /\ tcp.succeeded = 2
    /\ tcp.req_id = 2
    /\ tcp.client_id # 0
    /\ last.op.type = "rpc_call"
    /\ last.resp.tag = "Err"
    /\ last.resp.kind = "MalformedResponse"

====
